---- MODULE Spec2Model ----
(***************************************************************************)
(* The on-chain habit tracker habit::contract (contract.move) as a state   *)
(* machine.  The ledger holds the shared Habit objects and the owned       *)
(* CheckIn receipts; every entry function runs as one Move transaction,    *)
(* whose abort reverts all of its writes.                                  *)
(***************************************************************************)
EXTENDS Integers, Sequences, FiniteSets, TLC

\* ------------------------------------------------------------------------
\* Constants of the contract and bounds of the model
\* ------------------------------------------------------------------------

GOAL_TYPE_MONTHLY == 2

MS_PER_DAY == 86400000

\* Habits ever created in one behaviour.
MaxHabits == 1

\* Host timestamps range over the epoch days 0..MaxDay.
MaxDay == 4

Users == {"alice", "bob"}

\* Offsets inside a day: its first and its last millisecond.
Offsets == {0, MS_PER_DAY - 1}

Timestamps == {d * MS_PER_DAY + o : d \in 0..MaxDay, o \in Offsets}

\* vector<u8> arguments: the empty vector, and 0xFF, which is no UTF-8; the
\* texts are the one-byte "a" (<<97>>) and "b" (<<98>>).
EmptyBytes == << >>

InvalidBytes == <<255>>

\* Senders and notes of the check_in transactions: no notes, notes, and notes
\* that are no UTF-8.
CheckInInputs ==
    {[sender |-> "alice", notes |-> EmptyBytes],
     [sender |-> "bob", notes |-> <<97>>],
     [sender |-> "alice", notes |-> InvalidBytes]}

\* ------------------------------------------------------------------------
\* std::option and std::string as the contract uses them
\* ------------------------------------------------------------------------

none == << >>

some(v) == <<v>>

is_some(o) == Len(o) > 0

borrow(o) == o[1]

IsCont(b) == b >= 128 /\ b <= 191

RECURSIVE internal_check_utf8(_)
internal_check_utf8(bytes) ==
    IF Len(bytes) = 0 THEN TRUE
    ELSE LET b == bytes[1]
             n == Len(bytes)
             rest(k) == SubSeq(bytes, k + 1, n)
         IN  IF b < 128 THEN internal_check_utf8(rest(1))
             ELSE IF b >= 194 /\ b <= 223
                  THEN n >= 2 /\ IsCont(bytes[2]) /\ internal_check_utf8(rest(2))
             ELSE IF b >= 224 /\ b <= 239
                  THEN /\ n >= 3
                       /\ IsCont(bytes[2]) /\ IsCont(bytes[3])
                       /\ (b = 224 => bytes[2] >= 160)
                       /\ (b = 237 => bytes[2] <= 159)
                       /\ internal_check_utf8(rest(3))
             ELSE IF b >= 240 /\ b <= 244
                  THEN /\ n >= 4
                       /\ IsCont(bytes[2]) /\ IsCont(bytes[3]) /\ IsCont(bytes[4])
                       /\ (b = 240 => bytes[2] >= 144)
                       /\ (b = 244 => bytes[2] <= 143)
                       /\ internal_check_utf8(rest(4))
             ELSE FALSE

\* string::utf8 wraps the bytes in a String; it aborts unless they are UTF-8.
utf8(bytes) == [bytes |-> bytes]

\* ------------------------------------------------------------------------
\* Outcome of a transaction body
\* ------------------------------------------------------------------------

OK == "OK"

E_ALREADY_CHECKED_IN == "E_ALREADY_CHECKED_IN"

E_NOT_OWNER == "E_NOT_OWNER"

E_INVALID_DATE == "E_INVALID_DATE"

E_INVALID_GOAL_TYPE == "E_INVALID_GOAL_TYPE"

\* u64 subtraction below zero: the Move VM aborts the transaction.
ARITHMETIC_ERROR == "ARITHMETIC_ERROR"

\* std::string's abort on bytes that are no UTF-8.
E_INVALID_UTF8 == "E_INVALID_UTF8"

\* What a body leaves when it stops: its status, the habit as written so far,
\* the objects transferred and the events emitted so far.
Outcome(status, habit, receipts, events) ==
    [status |-> status, habit |-> habit, receipts |-> receipts, events |-> events]

\* A Move transaction: an abort reverts every write, transfer and event.
Transaction(before, out) ==
    IF out.status = OK THEN out
    ELSE Outcome(out.status, before, << >>, << >>)

\* ------------------------------------------------------------------------
\* Helper and view functions
\* ------------------------------------------------------------------------

\* get_date_timestamp that rounds to the nearest midnight.
get_date_timestamp_Nearest(timestamp_ms) ==
    (timestamp_ms + MS_PER_DAY \div 2)
        - ((timestamp_ms + MS_PER_DAY \div 2) % MS_PER_DAY)

get_date_timestamp(timestamp_ms) == timestamp_ms - (timestamp_ms % MS_PER_DAY)

\* ------------------------------------------------------------------------
\* Events and objects
\* ------------------------------------------------------------------------

HabitCreated(habit_id, owner, name) ==
    [type |-> "HabitCreated", habit_id |-> habit_id, owner |-> owner, name |-> name]

\* CheckInRecorded emitted with the two counters in each other's place.
CheckInRecorded_Swapped(habit_id, date, new_streak, total_checkins) ==
    [type |-> "CheckInRecorded", habit_id |-> habit_id, date |-> date,
     new_streak |-> total_checkins, total_checkins |-> new_streak]

CheckInRecorded(habit_id, date, new_streak, total_checkins) ==
    [type |-> "CheckInRecorded", habit_id |-> habit_id, date |-> date,
     new_streak |-> new_streak, total_checkins |-> total_checkins]

StreakBroken(habit_id, previous_streak) ==
    [type |-> "StreakBroken", habit_id |-> habit_id, previous_streak |-> previous_streak]

HabitUpdated(habit_id) == [type |-> "HabitUpdated", habit_id |-> habit_id]

HabitDeleted(habit_id) == [type |-> "HabitDeleted", habit_id |-> habit_id]

CheckIn(id, owner, habit_id, date, notes) ==
    [id |-> id, owner |-> owner, habit_id |-> habit_id, date |-> date, notes |-> notes]

\* A habit that does not exist (the input of create_habit's transaction).
NoHabit == [id |-> 0]

\* ------------------------------------------------------------------------
\* Entry functions
\* ------------------------------------------------------------------------

\* The outcome of a function that returns a value.
Returning(out, value) ==
    [status |-> out.status, habit |-> out.habit, receipts |-> out.receipts,
     events |-> out.events, result |-> value]

\* create_habit that takes a goal_count of 0 for 1.
create_habit_body_GoalCountAtLeastOne(name, description, emoji, goal_type, goal_count, is_public, sender, now, uid) ==
    IF ~(goal_type <= GOAL_TYPE_MONTHLY)
    THEN Outcome(E_INVALID_GOAL_TYPE, NoHabit, << >>, << >>)
    ELSE IF ~(internal_check_utf8(name) /\ internal_check_utf8(description)
              /\ internal_check_utf8(emoji))
    THEN Outcome(E_INVALID_UTF8, NoHabit, << >>, << >>)
    ELSE LET habit == [id |-> uid,
                       owner |-> sender,
                       name |-> utf8(name),
                       description |-> utf8(description),
                       emoji |-> utf8(emoji),
                       created_at |-> now,
                       goal_type |-> goal_type,
                       goal_count |-> IF goal_count = 0 THEN 1 ELSE goal_count,
                       total_checkins |-> 0,
                       current_streak |-> 0,
                       longest_streak |-> 0,
                       last_checkin_date |-> none,
                       is_public |-> is_public]
             habit_id == habit.id
         IN  Returning(Outcome(OK, habit, << >>,
                               <<HabitCreated(habit_id, sender, utf8(name))>>),
                       habit_id)

\* create_habit without its goal_type validation.
create_habit_body_Unvalidated(name, description, emoji, goal_type, goal_count, is_public, sender, now, uid) ==
    IF ~(internal_check_utf8(name) /\ internal_check_utf8(description)
         /\ internal_check_utf8(emoji))
    THEN Outcome(E_INVALID_UTF8, NoHabit, << >>, << >>)
    ELSE LET habit == [id |-> uid,
                       owner |-> sender,
                       name |-> utf8(name),
                       description |-> utf8(description),
                       emoji |-> utf8(emoji),
                       created_at |-> now,
                       goal_type |-> goal_type,
                       goal_count |-> goal_count,
                       total_checkins |-> 0,
                       current_streak |-> 0,
                       longest_streak |-> 0,
                       last_checkin_date |-> none,
                       is_public |-> is_public]
             habit_id == habit.id
         IN  Returning(Outcome(OK, habit, << >>,
                               <<HabitCreated(habit_id, sender, utf8(name))>>),
                       habit_id)

create_habit_body(name, description, emoji, goal_type, goal_count, is_public, sender, now, uid) ==
    IF ~(goal_type <= GOAL_TYPE_MONTHLY)
    THEN Outcome(E_INVALID_GOAL_TYPE, NoHabit, << >>, << >>)
    ELSE IF ~(internal_check_utf8(name) /\ internal_check_utf8(description)
              /\ internal_check_utf8(emoji))
    THEN Outcome(E_INVALID_UTF8, NoHabit, << >>, << >>)
    ELSE LET habit == [id |-> uid,
                       owner |-> sender,
                       name |-> utf8(name),
                       description |-> utf8(description),
                       emoji |-> utf8(emoji),
                       created_at |-> now,
                       goal_type |-> goal_type,
                       goal_count |-> goal_count,
                       total_checkins |-> 0,
                       current_streak |-> 0,
                       longest_streak |-> 0,
                       last_checkin_date |-> none,
                       is_public |-> is_public]
             habit_id == habit.id
         IN  Returning(Outcome(OK, habit, << >>,
                               <<HabitCreated(habit_id, sender, utf8(name))>>),
                       habit_id)

create_habit(name, description, emoji, goal_type, goal_count, is_public, sender, now, uid) ==
    Transaction(NoHabit,
                create_habit_body(name, description, emoji, goal_type, goal_count,
                                  is_public, sender, now, uid))

\* StreakStep with the consecutive day restarting the streak.
StreakStep_NoIncrement(habit, yesterday) ==
    IF is_some(habit.last_checkin_date)
    THEN LET last_date == borrow(habit.last_checkin_date)
         IN  IF last_date = yesterday
             THEN Outcome(OK, [habit EXCEPT !.current_streak = 1], << >>, << >>)
             ELSE IF last_date < yesterday
             THEN LET h1 == IF habit.current_streak > habit.longest_streak
                            THEN [habit EXCEPT !.longest_streak = habit.current_streak]
                            ELSE habit
                      previous_streak == h1.current_streak
                  IN  Outcome(OK, [h1 EXCEPT !.current_streak = 1], << >>,
                              <<StreakBroken(habit.id, previous_streak)>>)
             ELSE Outcome(E_INVALID_DATE, habit, << >>, << >>)
    ELSE Outcome(OK, [habit EXCEPT !.current_streak = 1], << >>, << >>)

\* StreakStep reading previous_streak after the reset.
StreakStep_PreviousAfterReset(habit, yesterday) ==
    IF is_some(habit.last_checkin_date)
    THEN LET last_date == borrow(habit.last_checkin_date)
         IN  IF last_date = yesterday
             THEN Outcome(OK, [habit EXCEPT !.current_streak = @ + 1], << >>, << >>)
             ELSE IF last_date < yesterday
             THEN LET h1 == IF habit.current_streak > habit.longest_streak
                            THEN [habit EXCEPT !.longest_streak = habit.current_streak]
                            ELSE habit
                      h2 == [h1 EXCEPT !.current_streak = 1]
                      previous_streak == h2.current_streak
                  IN  Outcome(OK, h2, << >>,
                              <<StreakBroken(habit.id, previous_streak)>>)
             ELSE Outcome(E_INVALID_DATE, habit, << >>, << >>)
    ELSE Outcome(OK, [habit EXCEPT !.current_streak = 1], << >>, << >>)

\* StreakStep that takes a check-in before the last one for a broken streak
\* instead of aborting.
StreakStep_AcceptsPast(habit, yesterday) ==
    IF is_some(habit.last_checkin_date)
    THEN LET last_date == borrow(habit.last_checkin_date)
         IN  IF last_date = yesterday
             THEN Outcome(OK, [habit EXCEPT !.current_streak = @ + 1], << >>, << >>)
             ELSE LET h1 == IF habit.current_streak > habit.longest_streak
                            THEN [habit EXCEPT !.longest_streak = habit.current_streak]
                            ELSE habit
                      previous_streak == h1.current_streak
                  IN  Outcome(OK, [h1 EXCEPT !.current_streak = 1], << >>,
                              <<StreakBroken(habit.id, previous_streak)>>)
    ELSE Outcome(OK, [habit EXCEPT !.current_streak = 1], << >>, << >>)

\* StreakStep that emits StreakBroken on the consecutive-day path as well.
StreakStep_BrokenOnEveryDay(habit, yesterday) ==
    IF is_some(habit.last_checkin_date)
    THEN LET last_date == borrow(habit.last_checkin_date)
         IN  IF last_date = yesterday
             THEN Outcome(OK, [habit EXCEPT !.current_streak = @ + 1], << >>,
                          <<StreakBroken(habit.id, habit.current_streak)>>)
             ELSE IF last_date < yesterday
             THEN LET h1 == IF habit.current_streak > habit.longest_streak
                            THEN [habit EXCEPT !.longest_streak = habit.current_streak]
                            ELSE habit
                      previous_streak == h1.current_streak
                  IN  Outcome(OK, [h1 EXCEPT !.current_streak = 1], << >>,
                              <<StreakBroken(habit.id, previous_streak)>>)
             ELSE Outcome(E_INVALID_DATE, habit, << >>, << >>)
    ELSE Outcome(OK, [habit EXCEPT !.current_streak = 1], << >>, << >>)

\* StreakStep with the gap counted as one more day of the streak.
StreakStep_NoReset(habit, yesterday) ==
    IF is_some(habit.last_checkin_date)
    THEN LET last_date == borrow(habit.last_checkin_date)
         IN  IF last_date <= yesterday
             THEN Outcome(OK, [habit EXCEPT !.current_streak = @ + 1], << >>, << >>)
             ELSE Outcome(E_INVALID_DATE, habit, << >>, << >>)
    ELSE Outcome(OK, [habit EXCEPT !.current_streak = 1], << >>, << >>)

\* The streak branch of check_in (lines 158-182): the habit and the events after it.
StreakStep(habit, yesterday) ==
    IF is_some(habit.last_checkin_date)
    THEN LET last_date == borrow(habit.last_checkin_date)
         IN  IF last_date = yesterday
             THEN Outcome(OK, [habit EXCEPT !.current_streak = @ + 1], << >>, << >>)
             ELSE IF last_date < yesterday
             THEN LET h1 == IF habit.current_streak > habit.longest_streak
                            THEN [habit EXCEPT !.longest_streak = habit.current_streak]
                            ELSE habit
                      previous_streak == h1.current_streak
                  IN  Outcome(OK, [h1 EXCEPT !.current_streak = 1], << >>,
                              <<StreakBroken(habit.id, previous_streak)>>)
             ELSE Outcome(E_INVALID_DATE, habit, << >>, << >>)
    ELSE Outcome(OK, [habit EXCEPT !.current_streak = 1], << >>, << >>)

\* AlreadyCheckedIn with the assertion of line 152 left out.
AlreadyCheckedIn_Never(habit, today) == FALSE

\* Lines 149-153: the habit already holds a check-in of today.
AlreadyCheckedIn(habit, today) ==
    is_some(habit.last_checkin_date) /\ borrow(habit.last_checkin_date) = today

\* UpdateStatistics that also stamps created_at with today.
UpdateStatistics_StampsCreation(habit, today) ==
    [habit EXCEPT !.total_checkins = @ + 1, !.last_checkin_date = some(today),
                  !.created_at = today]

\* UpdateStatistics that also counts the check-in into goal_count.
UpdateStatistics_CountsTowardsGoal(habit, today) ==
    [habit EXCEPT !.total_checkins = @ + 1, !.last_checkin_date = some(today),
                  !.goal_count = @ + 1]

\* UpdateStatistics without the write of last_checkin_date.
UpdateStatistics_KeepsLastDate(habit, today) ==
    [habit EXCEPT !.total_checkins = @ + 1]

\* UpdateStatistics without the increment of total_checkins.
UpdateStatistics_NoCount(habit, today) ==
    [habit EXCEPT !.last_checkin_date = some(today)]

\* Lines 184-186: the statistics of the habit.
UpdateStatistics(habit, today) ==
    [habit EXCEPT !.total_checkins = @ + 1, !.last_checkin_date = some(today)]

\* UpdateLongest left out.
UpdateLongest_Skipped(habit) == habit

\* UpdateLongest without its comparison.
UpdateLongest_Assign(habit) ==
    [habit EXCEPT !.longest_streak = habit.current_streak]

\* Lines 188-191: the longest streak follows the current one.
UpdateLongest(habit) ==
    IF habit.current_streak > habit.longest_streak
    THEN [habit EXCEPT !.longest_streak = habit.current_streak]
    ELSE habit

\* NotesOption without the test for empty notes.
NotesOption_AlwaysSome(notes) == some(utf8(notes))

\* Lines 194-198: empty notes are no notes.
NotesOption(notes) == IF Len(notes) > 0 THEN some(utf8(notes)) ELSE none

check_in_body(habit, notes, now, sender, uid) ==
    LET today == get_date_timestamp(now)
    IN  IF AlreadyCheckedIn(habit, today)
        THEN Outcome(E_ALREADY_CHECKED_IN, habit, << >>, << >>)
        ELSE IF today < MS_PER_DAY
        THEN Outcome(ARITHMETIC_ERROR, habit, << >>, << >>)
        ELSE LET yesterday == today - MS_PER_DAY
                 s == StreakStep(habit, yesterday)
             IN  IF s.status # OK THEN s
                 ELSE LET h3 == UpdateLongest(UpdateStatistics(s.habit, today))
                      IN  IF Len(notes) > 0 /\ ~internal_check_utf8(notes)
                          THEN Outcome(E_INVALID_UTF8, h3, << >>, s.events)
                          ELSE LET checkin == CheckIn(uid, sender, h3.id, today,
                                                      NotesOption(notes))
                               IN  Outcome(OK, h3, <<checkin>>,
                                           s.events \o
                                           <<CheckInRecorded(h3.id, today,
                                                             h3.current_streak,
                                                             h3.total_checkins)>>)

\* check_in as its doc comment has it: a private habit takes check-ins of its
\* owner alone.
check_in_OwnerGated(habit, notes, now, sender, uid) ==
    IF ~habit.is_public /\ habit.owner # sender
    THEN Outcome(E_NOT_OWNER, habit, << >>, << >>)
    ELSE Transaction(habit, check_in_body(habit, notes, now, sender, uid))

check_in(habit, notes, now, sender, uid) ==
    Transaction(habit, check_in_body(habit, notes, now, sender, uid))

\* update_habit without its goal_type validation.
update_habit_body_Unvalidated(habit, name, description, emoji, goal_type, goal_count, is_public, sender) ==
    IF ~(habit.owner = sender)
    THEN Outcome(E_NOT_OWNER, habit, << >>, << >>)
    ELSE LET h1 == IF is_some(name)
                   THEN [habit EXCEPT !.name = borrow(name)] ELSE habit
             h2 == IF is_some(description)
                   THEN [h1 EXCEPT !.description = borrow(description)] ELSE h1
             h3 == IF is_some(emoji)
                   THEN [h2 EXCEPT !.emoji = borrow(emoji)] ELSE h2
             h4 == IF is_some(goal_type)
                   THEN [h3 EXCEPT !.goal_type = borrow(goal_type)] ELSE h3
             h5 == IF is_some(goal_count)
                   THEN [h4 EXCEPT !.goal_count = borrow(goal_count)] ELSE h4
             h6 == IF is_some(is_public)
                   THEN [h5 EXCEPT !.is_public = borrow(is_public)] ELSE h5
         IN  Outcome(OK, h6, << >>, <<HabitUpdated(habit.id)>>)

\* update_habit that starts the day over when it is given a goal_type: the
\* habit loses its last_checkin_date.
update_habit_body_NewGoalNewDay(habit, name, description, emoji, goal_type, goal_count, is_public, sender) ==
    IF ~(habit.owner = sender)
    THEN Outcome(E_NOT_OWNER, habit, << >>, << >>)
    ELSE LET h1 == IF is_some(name)
                   THEN [habit EXCEPT !.name = borrow(name)] ELSE habit
             h2 == IF is_some(description)
                   THEN [h1 EXCEPT !.description = borrow(description)] ELSE h1
             h3 == IF is_some(emoji)
                   THEN [h2 EXCEPT !.emoji = borrow(emoji)] ELSE h2
         IN  IF is_some(goal_type) /\ ~(borrow(goal_type) <= GOAL_TYPE_MONTHLY)
             THEN Outcome(E_INVALID_GOAL_TYPE, h3, << >>, << >>)
             ELSE LET h4 == IF is_some(goal_type)
                            THEN [h3 EXCEPT !.goal_type = borrow(goal_type),
                                            !.last_checkin_date = none]
                            ELSE h3
                      h5 == IF is_some(goal_count)
                            THEN [h4 EXCEPT !.goal_count = borrow(goal_count)] ELSE h4
                      h6 == IF is_some(is_public)
                            THEN [h5 EXCEPT !.is_public = borrow(is_public)] ELSE h5
                  IN  Outcome(OK, h6, << >>, <<HabitUpdated(habit.id)>>)

\* update_habit that emits HabitUpdated only when a field changed its value.
update_habit_body_QuietNoOp(habit, name, description, emoji, goal_type, goal_count, is_public, sender) ==
    IF ~(habit.owner = sender)
    THEN Outcome(E_NOT_OWNER, habit, << >>, << >>)
    ELSE LET h1 == IF is_some(name)
                   THEN [habit EXCEPT !.name = borrow(name)] ELSE habit
             h2 == IF is_some(description)
                   THEN [h1 EXCEPT !.description = borrow(description)] ELSE h1
             h3 == IF is_some(emoji)
                   THEN [h2 EXCEPT !.emoji = borrow(emoji)] ELSE h2
         IN  IF is_some(goal_type) /\ ~(borrow(goal_type) <= GOAL_TYPE_MONTHLY)
             THEN Outcome(E_INVALID_GOAL_TYPE, h3, << >>, << >>)
             ELSE LET h4 == IF is_some(goal_type)
                            THEN [h3 EXCEPT !.goal_type = borrow(goal_type)] ELSE h3
                      h5 == IF is_some(goal_count)
                            THEN [h4 EXCEPT !.goal_count = borrow(goal_count)] ELSE h4
                      h6 == IF is_some(is_public)
                            THEN [h5 EXCEPT !.is_public = borrow(is_public)] ELSE h5
                  IN  Outcome(OK, h6, << >>,
                              IF h6 = habit THEN << >> ELSE <<HabitUpdated(habit.id)>>)

update_habit_body(habit, name, description, emoji, goal_type, goal_count, is_public, sender) ==
    IF ~(habit.owner = sender)
    THEN Outcome(E_NOT_OWNER, habit, << >>, << >>)
    ELSE LET h1 == IF is_some(name)
                   THEN [habit EXCEPT !.name = borrow(name)] ELSE habit
             h2 == IF is_some(description)
                   THEN [h1 EXCEPT !.description = borrow(description)] ELSE h1
             h3 == IF is_some(emoji)
                   THEN [h2 EXCEPT !.emoji = borrow(emoji)] ELSE h2
         IN  IF is_some(goal_type) /\ ~(borrow(goal_type) <= GOAL_TYPE_MONTHLY)
             THEN Outcome(E_INVALID_GOAL_TYPE, h3, << >>, << >>)
             ELSE LET h4 == IF is_some(goal_type)
                            THEN [h3 EXCEPT !.goal_type = borrow(goal_type)] ELSE h3
                      h5 == IF is_some(goal_count)
                            THEN [h4 EXCEPT !.goal_count = borrow(goal_count)] ELSE h4
                      h6 == IF is_some(is_public)
                            THEN [h5 EXCEPT !.is_public = borrow(is_public)] ELSE h5
                  IN  Outcome(OK, h6, << >>, <<HabitUpdated(habit.id)>>)

update_habit(habit, name, description, emoji, goal_type, goal_count, is_public, sender) ==
    Transaction(habit,
                update_habit_body(habit, name, description, emoji, goal_type,
                                  goal_count, is_public, sender))

\* delete_habit without the assertion of line 257.
delete_habit_body_Unchecked(habit, sender) ==
    Outcome(OK, NoHabit, << >>, <<HabitDeleted(habit.id)>>)

delete_habit_body(habit, sender) ==
    IF ~(habit.owner = sender)
    THEN Outcome(E_NOT_OWNER, habit, << >>, << >>)
    ELSE Outcome(OK, NoHabit, << >>, <<HabitDeleted(habit.id)>>)

delete_habit(habit, sender) == Transaction(habit, delete_habit_body(habit, sender))

\* ------------------------------------------------------------------------
\* View functions
\* ------------------------------------------------------------------------

\* The u64 arithmetic of the view functions is modelled on words of WordBits
\* bits: MaxWord stands for 2^64 - 1, and a product past it aborts.
WordBits == 10

MaxWord == 2^WordBits - 1

Return(value) == [status |-> OK, result |-> value]

Abort(status) == [status |-> status]

get_completion_rate(habit, period_days) ==
    IF habit.total_checkins = 0 \/ period_days = 0
    THEN Return(0)
    ELSE IF period_days * habit.goal_count > MaxWord
    THEN Abort(ARITHMETIC_ERROR)
    ELSE LET expected == period_days * habit.goal_count
         IN  IF expected = 0
             THEN Return(0)
             ELSE IF habit.total_checkins * 100 > MaxWord
             THEN Abort(ARITHMETIC_ERROR)
             ELSE LET rate == (habit.total_checkins * 100) \div expected
                  IN  IF rate > 100 THEN Return(100) ELSE Return(rate)

\* can_check_in_today that compares the last check-in day with now itself.
can_check_in_today_RawNow(habit, now) ==
    IF is_some(habit.last_checkin_date)
    THEN Return(borrow(habit.last_checkin_date) # now)
    ELSE Return(TRUE)

can_check_in_today(habit, now) ==
    LET today == get_date_timestamp(now)
    IN  IF is_some(habit.last_checkin_date)
        THEN LET last_date == borrow(habit.last_checkin_date)
             IN  Return(last_date # today)
        ELSE Return(TRUE)

\* get_days_since_creation without its early return: the u64 subtraction
\* aborts when now lies before the day of creation.
get_days_since_creation_Unclamped(habit, now) ==
    LET created == get_date_timestamp(habit.created_at)
        current == get_date_timestamp(now)
    IN  IF current < created
        THEN Abort(ARITHMETIC_ERROR)
        ELSE Return((current - created) \div MS_PER_DAY)

get_days_since_creation(habit, now) ==
    LET created == get_date_timestamp(habit.created_at)
        current == get_date_timestamp(now)
    IN  IF current < created
        THEN Return(0)
        ELSE Return((current - created) \div MS_PER_DAY)

\* ------------------------------------------------------------------------
\* The ledger
\* ------------------------------------------------------------------------

VARIABLES
    habits,           \* the shared Habit objects, by id
    receipts,         \* the CheckIn objects ever transferred, in order
    next_uid,         \* the next fresh object id (object::new)
    events,           \* the events of the last transaction
    last,             \* the last transaction: entry function, sender, habit, status
    history,          \* per habit ever created: the largest current_streak it
                      \* held and its successful check_in calls
    clock,            \* the host's clock (tx_context::epoch_timestamp_ms), in the
                      \* specification where the clock is part of the state
    isLoading,        \* useHabit: useState(false)
    transactionError, \* useHabit: useState<Error | null>(null)
    hash,             \* useHabit: useState<string | undefined>()
    invocations       \* useHabit: the calls of its four actions, each with the
                      \* place it has reached and what its promise came to

\* The state of the useHabit hook.
hook == <<isLoading, transactionError, hash, invocations>>

vars == <<habits, receipts, next_uid, events, last, history, clock, hook>>

\* JavaScript's null and undefined.
null == "null"

undefined == "undefined"

\* Habits created so far: every object id went to a habit or to a receipt.
habits_created == next_uid - 1 - Len(receipts)

Max(a, b) == IF a >= b THEN a ELSE b

Init ==
    /\ habits = << >>
    /\ receipts = << >>
    /\ next_uid = 1
    /\ events = << >>
    /\ last = [fn |-> "none", sender |-> "none", habit_id |-> 0, status |-> OK]
    /\ history = << >>
    /\ clock = 0
    /\ isLoading = FALSE
    /\ transactionError = null
    /\ hash = undefined
    /\ invocations = << >>

\* create_habit, while fewer than limit habits have been created.
CreateHabitUpTo(limit, name, description, emoji, goal_type, goal_count, is_public, sender, now) ==
    /\ habits_created < limit
    /\ LET out == create_habit(name, description, emoji, goal_type, goal_count,
                               is_public, sender, now, next_uid)
       IN  /\ last' = [fn |-> "create_habit", sender |-> sender,
                       habit_id |-> IF out.status = OK THEN next_uid ELSE 0,
                       status |-> out.status]
           /\ events' = out.events
           /\ IF out.status = OK
              THEN /\ habits' = (next_uid :> out.habit) @@ habits
                   /\ history' = (next_uid :> [max_streak |-> out.habit.current_streak,
                                               checkins |-> 0]) @@ history
                   /\ next_uid' = next_uid + 1
              ELSE UNCHANGED <<habits, history, next_uid>>
           /\ UNCHANGED <<receipts, clock, hook>>

CreateHabit(name, description, emoji, goal_type, goal_count, is_public, sender, now) ==
    CreateHabitUpTo(MaxHabits, name, description, emoji, goal_type, goal_count, is_public, sender, now)

CheckInTx(id, notes, sender, now) ==
    /\ id \in DOMAIN habits
    /\ LET out == check_in(habits[id], notes, now, sender, next_uid)
       IN  /\ last' = [fn |-> "check_in", sender |-> sender, habit_id |-> id,
                       status |-> out.status]
           /\ events' = out.events
           /\ habits' = [habits EXCEPT ![id] = out.habit]
           /\ receipts' = receipts \o out.receipts
           /\ next_uid' = next_uid + Len(out.receipts)
           /\ history' = [history EXCEPT
                            ![id].max_streak = Max(@, out.habit.current_streak),
                            ![id].checkins = IF out.status = OK THEN @ + 1 ELSE @]
           /\ UNCHANGED <<clock, hook>>

\* update_habit whose writes reach every habit of the same owner.
UpdateHabit_EveryHabitOfOwner(id, name, description, emoji, goal_type, goal_count, is_public, sender) ==
    /\ id \in DOMAIN habits
    /\ LET out == update_habit(habits[id], name, description, emoji, goal_type,
                               goal_count, is_public, sender)
           written(h) == update_habit(h, name, description, emoji, goal_type,
                                      goal_count, is_public, sender).habit
       IN  /\ last' = [fn |-> "update_habit", sender |-> sender, habit_id |-> id,
                       status |-> out.status]
           /\ events' = out.events
           /\ habits' = [i \in DOMAIN habits |->
                            IF out.status = OK /\ habits[i].owner = habits[id].owner
                            THEN written(habits[i]) ELSE habits[i]]
           /\ history' = [history EXCEPT
                            ![id].max_streak = Max(@, out.habit.current_streak)]
           /\ UNCHANGED <<receipts, next_uid, clock, hook>>

UpdateHabit(id, name, description, emoji, goal_type, goal_count, is_public, sender) ==
    /\ id \in DOMAIN habits
    /\ LET out == update_habit(habits[id], name, description, emoji, goal_type,
                               goal_count, is_public, sender)
       IN  /\ last' = [fn |-> "update_habit", sender |-> sender, habit_id |-> id,
                       status |-> out.status]
           /\ events' = out.events
           /\ habits' = [habits EXCEPT ![id] = out.habit]
           /\ history' = [history EXCEPT
                            ![id].max_streak = Max(@, out.habit.current_streak)]
           /\ UNCHANGED <<receipts, next_uid, clock, hook>>

\* delete_habit that takes the habit's receipts with it.
DeleteHabit_Cascade(id, sender) ==
    /\ id \in DOMAIN habits
    /\ LET out == delete_habit(habits[id], sender)
       IN  /\ last' = [fn |-> "delete_habit", sender |-> sender, habit_id |-> id,
                       status |-> out.status]
           /\ events' = out.events
           /\ habits' = IF out.status = OK
                        THEN [i \in DOMAIN habits \ {id} |-> habits[i]]
                        ELSE habits
           /\ receipts' = IF out.status = OK
                          THEN SelectSeq(receipts, LAMBDA r : r.habit_id # id)
                          ELSE receipts
           /\ UNCHANGED <<next_uid, history, clock, hook>>

\* delete_habit that emits HabitDeleted and leaves the object in place.
DeleteHabit_KeepsObject(id, sender) ==
    /\ id \in DOMAIN habits
    /\ LET out == delete_habit(habits[id], sender)
       IN  /\ last' = [fn |-> "delete_habit", sender |-> sender, habit_id |-> id,
                       status |-> out.status]
           /\ events' = out.events
           /\ UNCHANGED <<habits, receipts, next_uid, history, clock, hook>>

DeleteHabit(id, sender) ==
    /\ id \in DOMAIN habits
    /\ LET out == delete_habit(habits[id], sender)
       IN  /\ last' = [fn |-> "delete_habit", sender |-> sender, habit_id |-> id,
                       status |-> out.status]
           /\ events' = out.events
           /\ habits' = IF out.status = OK
                        THEN [i \in DOMAIN habits \ {id} |-> habits[i]]
                        ELSE habits
           /\ UNCHANGED <<receipts, next_uid, history, clock, hook>>

\* Arguments of the create_habit transactions: a daily and a weekly habit, a
\* goal_type past monthly, a name that is no UTF-8.
CreateInputs ==
    {[name |-> <<97>>, description |-> <<97>>, emoji |-> <<97>>,
      goal_type |-> 0, goal_count |-> 1],
     [name |-> <<97>>, description |-> <<97>>, emoji |-> <<97>>,
      goal_type |-> GOAL_TYPE_MONTHLY + 1, goal_count |-> 1],
     [name |-> InvalidBytes, description |-> <<97>>, emoji |-> <<97>>,
      goal_type |-> 0, goal_count |-> 1]}

\* Habits are created in the first or in the second epoch day.
CreateTimes == {0, 2 * MS_PER_DAY - 1}

\* Arguments of the update_habit transactions: nothing supplied, one field,
\* every field, and a goal_type past monthly after a supplied name.
UpdateInputs ==
    LET arg(n, d, e, gt, gc, p) ==
            [name |-> n, description |-> d, emoji |-> e, goal_type |-> gt,
             goal_count |-> gc, is_public |-> p]
        b == some(utf8(<<98>>))
    IN  {arg(none, none, none, none, none, none),
         arg(b, none, none, none, none, none),
         arg(none, none, none, none, none, some(TRUE)),
         arg(none, none, none, none, none, some(FALSE)),
         arg(b, b, b, some(1), some(0), none),
         arg(b, none, none, some(GOAL_TYPE_MONTHLY + 1), none, none)}

Next ==
    \/ \E a \in CreateInputs, is_public \in BOOLEAN, sender \in Users,
          now \in CreateTimes :
          CreateHabit(a.name, a.description, a.emoji, a.goal_type, a.goal_count,
                      is_public, sender, now)
    \/ \E id \in DOMAIN habits, a \in CheckInInputs, now \in Timestamps :
          CheckInTx(id, a.notes, a.sender, now)
    \/ \E id \in DOMAIN habits, a \in UpdateInputs, sender \in Users :
          UpdateHabit(id, a.name, a.description, a.emoji, a.goal_type,
                      a.goal_count, a.is_public, sender)
    \/ \E id \in DOMAIN habits, sender \in Users : DeleteHabit(id, sender)

Spec == Init /\ [][Next]_vars

\* ------------------------------------------------------------------------
\* Two habits side by side
\* ------------------------------------------------------------------------

MaxHabitsTwo == 2

\* Arguments of the create_habit transactions: a public monthly habit with
\* goal_count 0, and a goal_type past monthly.
CreateInputsTwo ==
    {[name |-> <<97>>, description |-> EmptyBytes, emoji |-> <<98>>,
      goal_type |-> GOAL_TYPE_MONTHLY, goal_count |-> 0, is_public |-> TRUE],
     [name |-> <<97>>, description |-> EmptyBytes, emoji |-> <<98>>,
      goal_type |-> GOAL_TYPE_MONTHLY + 1, goal_count |-> 0, is_public |-> TRUE]}

\* Habits are created in the second epoch day; bob checks in, in the second
\* and in the third epoch day.
TimesTwo == {MS_PER_DAY, 2 * MS_PER_DAY}

NextTwo ==
    \/ \E a \in CreateInputsTwo, sender \in Users :
          CreateHabitUpTo(MaxHabitsTwo, a.name, a.description, a.emoji,
                          a.goal_type, a.goal_count, a.is_public, sender,
                          MS_PER_DAY)
    \/ \E id \in DOMAIN habits, now \in TimesTwo :
          CheckInTx(id, EmptyBytes, "bob", now)
    \/ \E id \in DOMAIN habits, sender \in Users :
          UpdateHabit(id, none, none, none, some(1), none, some(FALSE), sender)
    \/ \E id \in DOMAIN habits, sender \in Users : DeleteHabit(id, sender)

SpecTwo == Init /\ [][NextTwo]_vars

\* ------------------------------------------------------------------------
\* One habit and its views
\* ------------------------------------------------------------------------

\* A call of get_completion_rate on habit id: it reads the habit and changes
\* nothing; last keeps its argument and what it returned.
GetCompletionRate(id, period_days, sender) ==
    /\ id \in DOMAIN habits
    /\ LET out == get_completion_rate(habits[id], period_days)
       IN  last' = IF out.status = OK
                   THEN [fn |-> "get_completion_rate", sender |-> sender,
                         habit_id |-> id, status |-> out.status,
                         period_days |-> period_days, result |-> out.result]
                   ELSE [fn |-> "get_completion_rate", sender |-> sender,
                         habit_id |-> id, status |-> out.status,
                         period_days |-> period_days]
    /\ events' = << >>
    /\ UNCHANGED <<habits, receipts, next_uid, history, clock, hook>>

\* A call of can_check_in_today on habit id at now.
CanCheckInToday(id, now, sender) ==
    /\ id \in DOMAIN habits
    /\ LET out == can_check_in_today(habits[id], now)
       IN  last' = IF out.status = OK
                   THEN [fn |-> "can_check_in_today", sender |-> sender,
                         habit_id |-> id, status |-> out.status, now |-> now,
                         result |-> out.result]
                   ELSE [fn |-> "can_check_in_today", sender |-> sender,
                         habit_id |-> id, status |-> out.status, now |-> now]
    /\ events' = << >>
    /\ UNCHANGED <<habits, receipts, next_uid, history, clock, hook>>

\* A call of get_days_since_creation on habit id at now.
GetDaysSinceCreation(id, now, sender) ==
    /\ id \in DOMAIN habits
    /\ LET out == get_days_since_creation(habits[id], now)
       IN  last' = IF out.status = OK
                   THEN [fn |-> "get_days_since_creation", sender |-> sender,
                         habit_id |-> id, status |-> out.status, now |-> now,
                         result |-> out.result]
                   ELSE [fn |-> "get_days_since_creation", sender |-> sender,
                         habit_id |-> id, status |-> out.status, now |-> now]
    /\ events' = << >>
    /\ UNCHANGED <<habits, receipts, next_uid, history, clock, hook>>

\* The goal counts of the habits and the periods asked for: none, small ones,
\* and the large ones whose product leaves the word.
ViewGoalCounts == {0, 1, 2, 2^(WordBits - 1)}

ViewPeriods == {0, 1, 2, 7, MaxWord}

\* The habit is created at the start of the second epoch day or at the end of
\* the third.
ViewCreateTimes == {MS_PER_DAY, 3 * MS_PER_DAY - 1}

NextView ==
    \/ \E goal_count \in ViewGoalCounts, now \in ViewCreateTimes :
          CreateHabitUpTo(MaxHabits, <<97>>, EmptyBytes, EmptyBytes, 0,
                          goal_count, TRUE, "alice", now)
    \/ \E id \in DOMAIN habits, now \in Timestamps :
          CheckInTx(id, EmptyBytes, "alice", now)
    \/ \E id \in DOMAIN habits, period_days \in ViewPeriods :
          GetCompletionRate(id, period_days, "bob")
    \/ \E id \in DOMAIN habits, now \in Timestamps :
          CanCheckInToday(id, now, "bob")
    \/ \E id \in DOMAIN habits, now \in Timestamps :
          GetDaysSinceCreation(id, now, "bob")

SpecView == Init /\ [][NextView]_vars

\* ------------------------------------------------------------------------
\* One habit under a monotonic clock
\* ------------------------------------------------------------------------

\* The host's clock moves forward.
Tick ==
    /\ \E t \in Timestamps : t > clock /\ clock' = t
    /\ UNCHANGED <<habits, receipts, next_uid, events, last, history, hook>>

\* Every transaction reads the clock as its now: alice creates a private daily
\* habit, alice and bob check in with text notes, alice updates and deletes.
NextClock ==
    \/ Tick
    \/ CreateHabitUpTo(MaxHabits, <<97>>, EmptyBytes, EmptyBytes, 0, 1, FALSE,
                       "alice", clock)
    \/ \E id \in DOMAIN habits, a \in {c \in CheckInInputs : c.notes # InvalidBytes} :
          CheckInTx(id, a.notes, a.sender, clock)
    \/ \E id \in DOMAIN habits :
          UpdateHabit(id, none, none, none, some(1), none, some(TRUE), "alice")
    \/ \E id \in DOMAIN habits : DeleteHabit(id, "alice")

SpecClock == Init /\ [][NextClock]_vars

\* ------------------------------------------------------------------------
\* Habits from creation to deletion
\* ------------------------------------------------------------------------

\* bob checks in, in the second and in the fourth epoch day.
LifeTimes == {MS_PER_DAY, 3 * MS_PER_DAY}

\* alice creates public daily habits, one after the other or side by side;
\* bob checks in; alice renames; alice and bob delete.
NextLife ==
    \/ CreateHabitUpTo(MaxHabitsTwo, <<97>>, EmptyBytes, EmptyBytes, 0, 1, TRUE,
                       "alice", MS_PER_DAY)
    \/ \E id \in DOMAIN habits, now \in LifeTimes :
          CheckInTx(id, EmptyBytes, "bob", now)
    \/ \E id \in DOMAIN habits :
          UpdateHabit(id, some(utf8(<<98>>)), none, none, none, none, none, "alice")
    \/ \E id \in DOMAIN habits, sender \in Users : DeleteHabit(id, sender)

SpecLife == Init /\ [][NextLife]_vars

\* ------------------------------------------------------------------------
\* The useHabit hook
\* ------------------------------------------------------------------------

\* The calls of the hook's actions that are followed.
MaxCalls == 2

\* The errors the hook stores: one thrown while the transaction is built, the
\* one signAndExecute hands to onError, and the one made of a failure status.
BuildError == "Error: build"

SubmissionError == "Error: submission"

TransactionFailed == "Error: Transaction failed"

\* The digest of the transaction of the i-th call.
Digest(i) == ToString(i)

\* What waitForTransaction comes to: it throws, or it resolves with effects
\* of status success or failure.
WaitOutcomes == {"throws", "success", "failure"}

\* A call of an action: fn is the action, pc the place it has reached
\* (submitted: signAndExecute was called; waiting: at await
\* waitForTransaction; refetching: at await refetch; done), result what its
\* promise came to, raised and lowered whether it has run setIsLoading(true)
\* and then setIsLoading(false), watched whether habitId === habit?.id, and
\* effects the status it read.
Invocation(fn, pc, result, raised, lowered, watched) ==
    [fn |-> fn, pc |-> pc, result |-> result, raised |-> raised,
     lowered |-> lowered, watched |-> watched, effects |-> "none"]

\* The state a run-to-completion piece of a call leaves.
Step(loading, error, call) ==
    [isLoading |-> loading, transactionError |-> error, call |-> call]

\* The call after the piece that settles its promise and runs
\* setIsLoading(false).
Settled(call, result) ==
    [call EXCEPT !.pc = "done", !.result = result, !.lowered = TRUE]

\* createHabit's onSuccess after await waitForTransaction (lines 204-221):
\* a failure status leaves effects.created empty.
createHabit_onSuccess(call, outcome) ==
    IF outcome = "throws"
    THEN Step(FALSE, transactionError, Settled(call, "rejected"))
    ELSE IF outcome = "success"
    THEN Step(FALSE, transactionError,
              Settled([call EXCEPT !.effects = outcome], "resolved"))
    ELSE Step(FALSE, transactionError,
              Settled([call EXCEPT !.effects = outcome], "rejected"))

\* checkIn's onSuccess that returns after the reject of a failure status.
checkIn_onSuccess_ReturnsOnFailure(call, outcome) ==
    IF outcome = "throws"
    THEN Step(FALSE, transactionError, Settled(call, "rejected"))
    ELSE IF outcome = "failure"
    THEN Step(isLoading, TransactionFailed,
              [call EXCEPT !.pc = "done", !.result = "rejected",
                           !.effects = outcome])
    ELSE IF call.watched
    THEN Step(isLoading, transactionError,
              [call EXCEPT !.pc = "refetching", !.effects = outcome])
    ELSE Step(FALSE, transactionError,
              Settled([call EXCEPT !.effects = outcome], "resolved"))

\* checkIn's onSuccess after await waitForTransaction (lines 271-298).
checkIn_onSuccess(call, outcome) ==
    IF outcome = "throws"
    THEN Step(FALSE, transactionError, Settled(call, "rejected"))
    ELSE IF outcome = "failure"
    THEN Step(FALSE, TransactionFailed,
              Settled([call EXCEPT !.effects = outcome], "rejected"))
    ELSE IF call.watched
    THEN Step(isLoading, transactionError,
              [call EXCEPT !.pc = "refetching", !.effects = outcome])
    ELSE Step(FALSE, transactionError,
              Settled([call EXCEPT !.effects = outcome], "resolved"))

\* updateHabit's onSuccess after await waitForTransaction (lines 361-371): the
\* status of the effects is not read.
updateHabit_onSuccess(call, outcome) ==
    IF outcome = "throws"
    THEN Step(FALSE, transactionError, Settled(call, "rejected"))
    ELSE IF call.watched
    THEN Step(isLoading, transactionError,
              [call EXCEPT !.pc = "refetching", !.effects = outcome])
    ELSE Step(FALSE, transactionError,
              Settled([call EXCEPT !.effects = outcome], "resolved"))

\* deleteHabit's onSuccess after await waitForTransaction (lines 409-416).
deleteHabit_onSuccess(call, outcome) ==
    IF outcome = "throws"
    THEN Step(FALSE, transactionError, Settled(call, "rejected"))
    ELSE Step(FALSE, transactionError,
              Settled([call EXCEPT !.effects = outcome], "resolved"))

\* createHabit up to the return of its promise (lines 167-238): without a
\* packageId it throws before the try; an error thrown while the transaction
\* is built is stored and thrown again.
createHabit(configured, throws) ==
    /\ Len(invocations) < MaxCalls
    /\ IF ~configured
       THEN /\ invocations' = Append(invocations,
                                     Invocation("createHabit", "done", "rejected",
                                                FALSE, FALSE, FALSE))
            /\ UNCHANGED <<isLoading, transactionError, hash>>
       ELSE IF throws
       THEN /\ isLoading' = FALSE
            /\ transactionError' = BuildError
            /\ hash' = undefined
            /\ invocations' = Append(invocations,
                                     Invocation("createHabit", "done", "rejected",
                                                TRUE, TRUE, FALSE))
       ELSE /\ isLoading' = TRUE
            /\ transactionError' = null
            /\ hash' = undefined
            /\ invocations' = Append(invocations,
                                     Invocation("createHabit", "submitted",
                                                "pending", TRUE, FALSE, FALSE))
    /\ UNCHANGED <<habits, receipts, next_uid, events, last, history, clock>>

\* checkIn, updateHabit and deleteHabit up to the return of their promise:
\* without a habitId or a packageId they return at once; an error thrown while
\* the transaction is built is stored and the call returns.
Begin(fn, ready, throws, watched) ==
    /\ Len(invocations) < MaxCalls
    /\ IF ~ready
       THEN /\ invocations' = Append(invocations,
                                     Invocation(fn, "done", "resolved",
                                                FALSE, FALSE, watched))
            /\ UNCHANGED <<isLoading, transactionError>>
       ELSE IF throws
       THEN /\ isLoading' = FALSE
            /\ transactionError' = BuildError
            /\ invocations' = Append(invocations,
                                     Invocation(fn, "done", "resolved",
                                                TRUE, TRUE, watched))
       ELSE /\ isLoading' = TRUE
            /\ transactionError' = null
            /\ invocations' = Append(invocations,
                                     Invocation(fn, "submitted", "pending",
                                                TRUE, FALSE, watched))
    /\ UNCHANGED <<hash, habits, receipts, next_uid, events, last, history, clock>>

checkIn(ready, throws, watched) == Begin("checkIn", ready, throws, watched)

updateHabit(ready, throws, watched) == Begin("updateHabit", ready, throws, watched)

deleteHabit(ready, throws) == Begin("deleteHabit", ready, throws, FALSE)

\* signAndExecute answers call i with onError (lines 223-228, 300-306,
\* 373-378, 418-423).
onError(i) ==
    /\ i \in 1..Len(invocations)
    /\ invocations[i].pc = "submitted"
    /\ transactionError' = SubmissionError
    /\ isLoading' = FALSE
    /\ invocations' = [invocations EXCEPT ![i] = Settled(@, "rejected")]
    /\ UNCHANGED <<hash, habits, receipts, next_uid, events, last, history, clock>>

\* signAndExecute answers call i with onSuccess, which stores the digest and
\* awaits waitForTransaction (lines 202-208, 268-278, 359-362, 407-410).
onSuccess(i) ==
    /\ i \in 1..Len(invocations)
    /\ invocations[i].pc = "submitted"
    /\ hash' = Digest(i)
    /\ invocations' = [invocations EXCEPT ![i].pc = "waiting"]
    /\ UNCHANGED <<isLoading, transactionError, habits, receipts, next_uid,
                   events, last, history, clock>>

\* waitForTransaction settles for call i, and onSuccess runs on to its next
\* await or to its end.
waitForTransaction(i, outcome) ==
    /\ i \in 1..Len(invocations)
    /\ invocations[i].pc = "waiting"
    /\ LET call == invocations[i]
           step == IF call.fn = "createHabit"
                   THEN createHabit_onSuccess(call, outcome)
                   ELSE IF call.fn = "checkIn"
                   THEN checkIn_onSuccess(call, outcome)
                   ELSE IF call.fn = "updateHabit"
                   THEN updateHabit_onSuccess(call, outcome)
                   ELSE deleteHabit_onSuccess(call, outcome)
       IN  /\ isLoading' = step.isLoading
           /\ transactionError' = step.transactionError
           /\ invocations' = [invocations EXCEPT ![i] = step.call]
    /\ UNCHANGED <<hash, habits, receipts, next_uid, events, last, history, clock>>

\* refetch settles for call i of checkIn (lines 288-298) or updateHabit (lines
\* 363-371): the promise is resolved, or rejected with what refetch threw,
\* and setIsLoading(false) runs.
refetch(i, throws) ==
    /\ i \in 1..Len(invocations)
    /\ invocations[i].pc = "refetching"
    /\ isLoading' = FALSE
    /\ invocations' = [invocations EXCEPT
                         ![i] = Settled(@, IF throws THEN "rejected" ELSE "resolved")]
    /\ UNCHANGED <<transactionError, hash, habits, receipts, next_uid, events,
                   last, history, clock>>

NextHook ==
    \/ \E configured \in BOOLEAN, throws \in BOOLEAN : createHabit(configured, throws)
    \/ \E ready \in BOOLEAN, throws \in BOOLEAN, watched \in BOOLEAN :
          checkIn(ready, throws, watched)
    \/ \E ready \in BOOLEAN, throws \in BOOLEAN, watched \in BOOLEAN :
          updateHabit(ready, throws, watched)
    \/ \E ready \in BOOLEAN, throws \in BOOLEAN : deleteHabit(ready, throws)
    \/ \E i \in 1..MaxCalls : onError(i)
    \/ \E i \in 1..MaxCalls : onSuccess(i)
    \/ \E i \in 1..MaxCalls, outcome \in WaitOutcomes : waitForTransaction(i, outcome)
    \/ \E i \in 1..MaxCalls, throws \in BOOLEAN : refetch(i, throws)

\* signAndExecute answers every submission with one of its two callbacks, and
\* every awaited promise settles.
SpecHook ==
    /\ Init
    /\ [][NextHook]_vars
    /\ \A i \in 1..MaxCalls :
           /\ WF_vars(onError(i) \/ onSuccess(i))
           /\ WF_vars(\E outcome \in WaitOutcomes : waitForTransaction(i, outcome))
           /\ WF_vars(\E throws \in BOOLEAN : refetch(i, throws))

\* ------------------------------------------------------------------------
\* Vocabulary of the properties
\* ------------------------------------------------------------------------

\* Notes that are text (the empty text included), and every notes argument.
TextNotes == {EmptyBytes, <<97>>, <<98>>}

AnyNotes == TextNotes \cup {InvalidBytes}

\* The receipts issued for habit id, in the order of issue, and their dates.
ReceiptsOf(id) == SelectSeq(receipts, LAMBDA r : r.habit_id = id)

DateSeq(id) == [i \in 1..Len(ReceiptsOf(id)) |-> ReceiptsOf(id)[i].date]

DateSet(id) == {receipts[i].date : i \in {j \in 1..Len(receipts) : receipts[j].habit_id = id}}

\* The events of one type in a sequence of events.
EventsOfType(evs, type) == SelectSeq(evs, LAMBDA e : e.type = type)

\* The length of the run of consecutive day ids in S that ends at day id d.
RECURSIVE RunLength(_, _)
RunLength(S, d) == IF d \in S THEN 1 + RunLength(S, d - MS_PER_DAY) ELSE 0

\* ------------------------------------------------------------------------
\* C1
\* ------------------------------------------------------------------------

\* C1: the CheckIn receipts issued for one habit carry pairwise distinct dates:
\* no two successful check_in calls on a habit record the same day id.
C1_DistinctReceiptDates ==
    \A i, j \in 1..Len(receipts) :
        (i # j /\ receipts[i].habit_id = receipts[j].habit_id)
            => receipts[i].date # receipts[j].date

\* Two receipts of one habit exist, and a further check_in on it was refused.
C1_Witness ==
    /\ \E i, j \in 1..Len(receipts) :
           i # j /\ receipts[i].habit_id = receipts[j].habit_id
    /\ last.fn = "check_in" /\ last.status = E_ALREADY_CHECKED_IN

\* ------------------------------------------------------------------------
\* C2
\* ------------------------------------------------------------------------

\* A refused call: the habit is as before, no receipt, no event.
Refused(out, habit, status) ==
    /\ out.status = status
    /\ out.habit = habit
    /\ out.receipts = << >>
    /\ out.events = << >>

ConsecutiveSuffix(id, k) ==
    LET ds == DateSeq(id)
        n == Len(ds)
    IN  /\ n >= k + 1
        /\ \A j \in 0..k : ds[n - j] = ds[n] - j * MS_PER_DAY
        /\ (n > k + 1) => ds[n - k - 1] # ds[n - k] - MS_PER_DAY

\* C3: after successful check-ins on the consecutive day ids d, ..., d + k days
\* (the check-in before them, if any, not on the day before d), current_streak
\* is k + 1 and longest_streak is at least k + 1.
C3_StreakContinuity ==
    \A id \in DOMAIN habits, k \in 0..MaxDay :
        ConsecutiveSuffix(id, k)
            => /\ habits[id].current_streak = k + 1
               /\ habits[id].longest_streak >= k + 1

\* Three check-ins on consecutive days, the last one just made.
C3_Witness ==
    /\ last.fn = "check_in" /\ last.status = OK
    /\ last.habit_id \in DOMAIN habits
    /\ ConsecutiveSuffix(last.habit_id, 2)

\* ------------------------------------------------------------------------
\* C4
\* ------------------------------------------------------------------------

\* C4: on a habit with current_streak = n >= 1 and last check-in day L, a
\* check_in (with notes that are text) whose day id is greater than
\* L + MS_PER_DAY succeeds, sets current_streak to 1 and longest_streak to
\* max(old longest_streak, n), and emits exactly one StreakBroken, whose
\* previous_streak is n; a transaction that emitted StreakBroken left
\* current_streak at 1.
C4_StreakBreak ==
    /\ \A id \in DOMAIN habits, now \in Timestamps, notes \in TextNotes,
          sender \in Users :
           LET h == habits[id]
               n == h.current_streak
               out == check_in(h, notes, now, sender, next_uid)
               broken == EventsOfType(out.events, "StreakBroken")
           IN  (/\ n >= 1
                /\ is_some(h.last_checkin_date)
                /\ get_date_timestamp(now) > borrow(h.last_checkin_date) + MS_PER_DAY)
               => /\ out.status = OK
                  /\ out.habit.current_streak = 1
                  /\ out.habit.longest_streak = Max(h.longest_streak, n)
                  /\ broken = <<StreakBroken(id, n)>>
    /\ EventsOfType(events, "StreakBroken") # << >>
           => /\ last.fn = "check_in" /\ last.status = OK
              /\ Len(EventsOfType(events, "StreakBroken")) = 1
              /\ habits[last.habit_id].current_streak = 1

\* A check_in has just broken a streak of two days.
C4_Witness ==
    /\ last.fn = "check_in" /\ last.status = OK
    /\ EventsOfType(events, "StreakBroken") = <<StreakBroken(last.habit_id, 2)>>
    /\ habits[last.habit_id].current_streak = 1
    /\ habits[last.habit_id].longest_streak = 2

\* ------------------------------------------------------------------------
\* C5
\* ------------------------------------------------------------------------

\* C5: for a habit checked in at least once, current_streak is the length of
\* the run of consecutive day ids, each with a receipt of the habit, that ends
\* at last_checkin_date.
C5_StreakIsRunOfReceipts ==
    \A id \in DOMAIN habits :
        habits[id].total_checkins >= 1
            => /\ is_some(habits[id].last_checkin_date)
               /\ habits[id].current_streak =
                      RunLength(DateSet(id), borrow(habits[id].last_checkin_date))

\* A run of two days after an earlier check-in that is no part of it.
C5_Witness ==
    \E id \in DOMAIN habits :
        /\ habits[id].total_checkins = 3
        /\ habits[id].current_streak = 2
        /\ Cardinality(DateSet(id)) = 3

\* ------------------------------------------------------------------------
\* C6
\* ------------------------------------------------------------------------

\* C6: current_streak <= longest_streak in every state reached by completed
\* create, check_in, update and delete transactions.
C6_CurrentAtMostLongest ==
    \A id \in DOMAIN habits : habits[id].current_streak <= habits[id].longest_streak

\* A check_in has just left the current streak below the longest one.
C6_Witness ==
    /\ last.fn = "check_in" /\ last.status = OK
    /\ habits[last.habit_id].current_streak < habits[last.habit_id].longest_streak

\* ------------------------------------------------------------------------
\* C7
\* ------------------------------------------------------------------------

\* C7: no transaction decreases longest_streak, and after every transaction
\* longest_streak is the largest value current_streak has held since creation.
C7_LongestIsHistoricalMax ==
    [][/\ \A id \in DOMAIN habits \cap DOMAIN habits' :
              habits'[id].longest_streak >= habits[id].longest_streak
       /\ \A id \in DOMAIN habits' :
              habits'[id].longest_streak = history'[id].max_streak]_vars

\* The longest streak is a past one: the current streak is shorter.
C7_Witness ==
    \E id \in DOMAIN habits :
        /\ habits[id].longest_streak = 2
        /\ habits[id].current_streak = 1
        /\ history[id].max_streak = 2

\* ------------------------------------------------------------------------
\* C8
\* ------------------------------------------------------------------------

\* C8: total_checkins is the number of successful check_in calls on the habit
\* and the number of receipts issued for it; a successful check_in raises it by
\* exactly 1 and no other transaction changes it.
C8_TotalCountsCheckIns ==
    [][/\ \A id \in DOMAIN habits' :
              /\ habits'[id].total_checkins = history'[id].checkins
              /\ habits'[id].total_checkins = Len(ReceiptsOf(id))'
       /\ \A id \in DOMAIN habits \cap DOMAIN habits' :
              habits'[id].total_checkins =
                  habits[id].total_checkins
                  + (IF last'.fn = "check_in" /\ last'.status = OK /\ last'.habit_id = id
                     THEN 1 ELSE 0)]_vars

\* After two check-ins a third call was refused.
C8_Witness ==
    /\ last.fn = "check_in" /\ last.status # OK
    /\ last.habit_id \in DOMAIN habits
    /\ habits[last.habit_id].total_checkins = 2
    /\ Len(ReceiptsOf(last.habit_id)) = 2

\* ------------------------------------------------------------------------
\* C9
\* ------------------------------------------------------------------------

\* C9: update_habit and delete_habit sent by another address than habit.owner
\* fail with E_NOT_OWNER, whatever fields are supplied; the habit stays, every
\* field as before, and no event is emitted.
C9_OwnerGating ==
    [][(/\ last'.fn \in {"update_habit", "delete_habit"}
        /\ last'.habit_id \in DOMAIN habits
        /\ last'.sender # habits[last'.habit_id].owner)
       => /\ last'.status = E_NOT_OWNER
          /\ habits' = habits
          /\ receipts' = receipts
          /\ events' = << >>]_vars

\* A delete_habit by a stranger was refused on a habit with check-ins.
C9_Witness ==
    /\ last.fn = "delete_habit" /\ last.status = E_NOT_OWNER
    /\ last.habit_id \in DOMAIN habits
    /\ last.sender # habits[last.habit_id].owner
    /\ habits[last.habit_id].total_checkins >= 1

\* ------------------------------------------------------------------------
\* C10
\* ------------------------------------------------------------------------

\* What check_in does to the habit, apart from the receipt's owner.
Effect(out) ==
    [status |-> out.status,
     total_checkins |-> out.habit.total_checkins,
     current_streak |-> out.habit.current_streak,
     longest_streak |-> out.habit.longest_streak,
     last_checkin_date |-> out.habit.last_checkin_date,
     events |-> out.events,
     dates |-> [i \in 1..Len(out.receipts) |-> out.receipts[i].date]]

C11_PrivateCheckInOwnerOnly ==
    [][(/\ last'.fn = "check_in"
        /\ last'.habit_id \in DOMAIN habits
        /\ ~habits[last'.habit_id].is_public
        /\ last'.sender # habits[last'.habit_id].owner)
       => last'.status # OK]_vars

\* ------------------------------------------------------------------------
\* C12
\* ------------------------------------------------------------------------

\* C12: a check_in on a habit whose last_checkin_date is greater than the day
\* id of now is refused with E_INVALID_DATE, whatever the notes and the
\* sender: the habit is as before, no receipt is issued, no event is emitted.
C12_FutureLastDateIsInvalidDate ==
    \A id \in DOMAIN habits, now \in Timestamps, notes \in AnyNotes,
       sender \in Users :
        LET h == habits[id]
        IN  (/\ is_some(h.last_checkin_date)
             /\ borrow(h.last_checkin_date) > get_date_timestamp(now))
            => Refused(check_in(h, notes, now, sender, next_uid), h,
                       E_INVALID_DATE)

\* ------------------------------------------------------------------------
\* C13
\* ------------------------------------------------------------------------

\* C13: a check_in with text notes on a habit with no last_checkin_date
\* succeeds at every now, the first epoch day included, and leaves
\* current_streak = 1, total_checkins = 1 and last_checkin_date = the day id
\* of now; and check_in fails with E_ALREADY_CHECKED_IN or E_INVALID_DATE only.
C13_FirstCheckInAlwaysSucceeds ==
    \A id \in DOMAIN habits, now \in Timestamps, notes \in TextNotes,
       sender \in Users :
        LET h == habits[id]
            out == check_in(h, notes, now, sender, next_uid)
        IN  /\ out.status \in {OK, E_ALREADY_CHECKED_IN, E_INVALID_DATE}
            /\ ~is_some(h.last_checkin_date)
               => /\ out.status = OK
                  /\ out.habit.current_streak = 1
                  /\ out.habit.total_checkins = 1
                  /\ out.habit.last_checkin_date
                         = some(get_date_timestamp(now))

\* ------------------------------------------------------------------------
\* C14
\* ------------------------------------------------------------------------

\* C14: on a daily habit with goal_count 1 and no check-in yet, check_in at
\* 0, 86400000 and 172800000 succeeds three times and leaves current_streak =
\* longest_streak = total_checkins = 3; a check_in at 432000000 then succeeds,
\* leaves current_streak = 1, longest_streak = 3, total_checkins = 4 and emits
\* StreakBroken with previous_streak 3.
C14_Scenario ==
    \A id \in DOMAIN habits, sender \in Users :
        LET h0 == habits[id]
            c1 == check_in(h0, EmptyBytes, 0, sender, next_uid)
            c2 == check_in(c1.habit, EmptyBytes, 86400000, sender, next_uid + 1)
            c3 == check_in(c2.habit, EmptyBytes, 172800000, sender, next_uid + 2)
            c4 == check_in(c3.habit, EmptyBytes, 432000000, sender, next_uid + 3)
        IN  (h0.goal_type = 0 /\ h0.goal_count = 1 /\ h0.total_checkins = 0)
            => /\ c1.status = OK /\ c2.status = OK /\ c3.status = OK
               /\ c3.habit.current_streak = 3
               /\ c3.habit.longest_streak = 3
               /\ c3.habit.total_checkins = 3
               /\ c4.status = OK
               /\ c4.habit.current_streak = 1
               /\ c4.habit.longest_streak = 3
               /\ c4.habit.total_checkins = 4
               /\ EventsOfType(c4.events, "StreakBroken")
                      = <<StreakBroken(id, 3)>>

\* ------------------------------------------------------------------------
\* C15
\* ------------------------------------------------------------------------

\* Arguments of update_habit: an optional text, an optional count, an optional
\* flag, and the goal types past monthly (goal_type is a u8).
OptText == {none, some(utf8(<<98>>))}

OptCount == {none, some(0)}

OptBool == {none, some(TRUE), some(FALSE)}

BadGoalTypes == {GOAL_TYPE_MONTHLY + 1, 255}

\* C15: update_habit sent by the owner with a goal_type greater than 2 is
\* refused with E_INVALID_GOAL_TYPE whatever else is supplied in the call:
\* name, description and emoji are not written, the habit is as before, and no
\* HabitUpdated is emitted.
C15_InvalidGoalTypeNoPartialEffect ==
    \A id \in DOMAIN habits, name \in OptText, description \in OptText,
       emoji \in OptText, goal_type \in BadGoalTypes, goal_count \in OptCount,
       is_public \in OptBool :
        LET h == habits[id]
        IN  Refused(update_habit(h, name, description, emoji, some(goal_type),
                                 goal_count, is_public, h.owner),
                    h, E_INVALID_GOAL_TYPE)

\* The owner's update with a new name and goal_type 3 was refused, and the
\* habit, with check-ins, still has the name it was created with.
C15_Witness ==
    /\ last.fn = "update_habit" /\ last.status = E_INVALID_GOAL_TYPE
    /\ last.sender = habits[last.habit_id].owner
    /\ habits[last.habit_id].name = utf8(<<97>>)
    /\ habits[last.habit_id].total_checkins >= 1
    /\ events = << >>

\* ------------------------------------------------------------------------
\* C16
\* ------------------------------------------------------------------------

\* C16: every habit has goal_type in {0, 1, 2}; create_habit and update_habit
\* refuse a goal_type greater than 2 with E_INVALID_GOAL_TYPE (no habit is
\* created, the habit's goal_type stays as it was: the value is not clamped);
\* check_in leaves goal_type as it is.
C16_GoalTypeInRange ==
    /\ \A id \in DOMAIN habits : habits[id].goal_type \in 0..GOAL_TYPE_MONTHLY
    /\ \A goal_type \in BadGoalTypes, goal_count \in {0, 1},
          is_public \in BOOLEAN, sender \in Users, now \in CreateTimes :
           Refused(create_habit(<<97>>, <<97>>, <<97>>, goal_type, goal_count,
                                is_public, sender, now, next_uid),
                   NoHabit, E_INVALID_GOAL_TYPE)
    /\ \A id \in DOMAIN habits, goal_type \in BadGoalTypes :
           LET out == update_habit(habits[id], none, none, none,
                                   some(goal_type), none, none, habits[id].owner)
           IN  /\ out.status = E_INVALID_GOAL_TYPE
               /\ out.habit.goal_type = habits[id].goal_type
    /\ \A id \in DOMAIN habits, now \in Timestamps, notes \in AnyNotes,
          sender \in Users :
           check_in(habits[id], notes, now, sender, next_uid).habit.goal_type
               = habits[id].goal_type

\* A habit whose goal_type was updated to weekly has just refused goal_type 3.
C16_Witness ==
    /\ last.fn = "update_habit" /\ last.status = E_INVALID_GOAL_TYPE
    /\ habits[last.habit_id].goal_type = 1

\* ------------------------------------------------------------------------
\* C18
\* ------------------------------------------------------------------------

\* C18: update_habit sent by the owner with a goal_type that is absent or at
\* most 2 succeeds, writes the supplied ones of name, description, emoji,
\* goal_type, goal_count and is_public, leaves every other field (the omitted
\* ones, owner, created_at, the counters, last_checkin_date) as it was, and
\* emits exactly one HabitUpdated with the habit's id, also when nothing is
\* supplied or no value changes.
C18_UpdateWritesSuppliedFields ==
    \A id \in DOMAIN habits, name \in OptText, description \in OptText,
       emoji \in OptText, goal_type \in {none, some(0), some(GOAL_TYPE_MONTHLY)},
       goal_count \in OptCount, is_public \in OptBool :
        LET h == habits[id]
            out == update_habit(h, name, description, emoji, goal_type,
                                goal_count, is_public, h.owner)
            val(o, old) == IF is_some(o) THEN borrow(o) ELSE old
        IN  /\ out.status = OK
            /\ out.habit = [h EXCEPT !.name = val(name, @),
                                     !.description = val(description, @),
                                     !.emoji = val(emoji, @),
                                     !.goal_type = val(goal_type, @),
                                     !.goal_count = val(goal_count, @),
                                     !.is_public = val(is_public, @)]
            /\ out.events = <<HabitUpdated(id)>>
            /\ out.receipts = << >>

\* The owner's update of a habit with check-ins has succeeded with one
\* HabitUpdated, on a habit that already carries the updated name and
\* goal_count 0.
C18_Witness ==
    /\ last.fn = "update_habit" /\ last.status = OK
    /\ last.sender = habits[last.habit_id].owner
    /\ events = <<HabitUpdated(last.habit_id)>>
    /\ habits[last.habit_id].name = utf8(<<98>>)
    /\ habits[last.habit_id].goal_count = 0
    /\ habits[last.habit_id].total_checkins >= 1

\* ------------------------------------------------------------------------
\* C17
\* ------------------------------------------------------------------------

\* What create_habit yields when it takes uid for the new object: for every
\* text name, description and emoji, every goal_type up to monthly, every
\* goal_count (0 included), flag, sender and time it succeeds with the habit
\* made of its arguments, one HabitCreated, and the habit's id as its result.
CreateYields(uid) ==
    \A name \in TextNotes, description \in {EmptyBytes, <<97>>},
       goal_type \in 0..GOAL_TYPE_MONTHLY, goal_count \in {0, 1, 7},
       is_public \in BOOLEAN, sender \in Users, now \in Timestamps :
        LET out == create_habit(name, description, <<98>>, goal_type,
                                goal_count, is_public, sender, now, uid)
        IN  /\ out.status = OK
            /\ out.habit = [id |-> uid,
                            owner |-> sender,
                            name |-> utf8(name),
                            description |-> utf8(description),
                            emoji |-> utf8(<<98>>),
                            created_at |-> now,
                            goal_type |-> goal_type,
                            goal_count |-> goal_count,
                            total_checkins |-> 0,
                            current_streak |-> 0,
                            longest_streak |-> 0,
                            last_checkin_date |-> none,
                            is_public |-> is_public]
            /\ out.events = <<HabitCreated(uid, sender, utf8(name))>>
            /\ out.receipts = << >>
            /\ out.result = uid

\* C17: a successful create_habit (goal_type <= 2) yields a habit with owner =
\* the sender, created_at = now, the three counters 0, no last_checkin_date
\* and the supplied name, description, emoji, goal_type, goal_count (0
\* included) and is_public; it emits exactly one HabitCreated with the new id,
\* the owner and the name and returns that id; the id is the id of no habit
\* that exists or ever existed and of no receipt, and the habits that exist
\* stay as they are.
C17_CreateYieldsFreshHabit ==
    [][(last'.fn = "create_habit" /\ last'.status = OK)
       => LET id == last'.habit_id
          IN  /\ CreateYields(id)
              /\ id \notin DOMAIN habits
              /\ id \notin DOMAIN history
              /\ \A i \in 1..Len(receipts) : receipts[i].id # id
              /\ DOMAIN habits' = DOMAIN habits \cup {id}
              /\ \A other \in DOMAIN habits : habits'[other] = habits[other]
              /\ habits'[id].id = id
              /\ habits'[id].owner = last'.sender
              /\ habits'[id].goal_type <= GOAL_TYPE_MONTHLY
              /\ habits'[id].total_checkins = 0
              /\ habits'[id].current_streak = 0
              /\ habits'[id].longest_streak = 0
              /\ habits'[id].last_checkin_date = none
              /\ events' = <<HabitCreated(id, last'.sender, habits'[id].name)>>
              /\ receipts' = receipts]_vars

\* A habit with goal_count 0 has just been created next to a habit that has a
\* check-in.
C17_Witness ==
    /\ last.fn = "create_habit" /\ last.status = OK
    /\ habits[last.habit_id].goal_count = 0
    /\ \E other \in DOMAIN habits :
           other # last.habit_id /\ habits[other].total_checkins >= 1
    /\ Len(receipts) >= 1

\* ------------------------------------------------------------------------
\* C19
\* ------------------------------------------------------------------------

\* C19: delete_habit sent by the owner succeeds, removes the habit and no
\* other, and emits exactly one HabitDeleted with its id; a habit that was
\* removed never exists again; and no transaction removes or changes a
\* receipt: every receipt issued stays, with its owner, habit_id, date and
\* notes, also after its habit is deleted.
C19_DeleteKeepsReceipts ==
    [][/\ Len(receipts') >= Len(receipts)
       /\ \A i \in 1..Len(receipts) : receipts'[i] = receipts[i]
       /\ \A id \in DOMAIN history \ DOMAIN habits : id \notin DOMAIN habits'
       /\ (/\ last'.fn = "delete_habit"
           /\ last'.habit_id \in DOMAIN habits
           /\ last'.sender = habits[last'.habit_id].owner)
          => /\ last'.status = OK
             /\ DOMAIN habits' = DOMAIN habits \ {last'.habit_id}
             /\ \A other \in DOMAIN habits' : habits'[other] = habits[other]
             /\ events' = <<HabitDeleted(last'.habit_id)>>
             /\ receipts' = receipts]_vars

\* The owner has just deleted a habit for which a receipt was issued; the
\* receipt is there and the habit is not.
C19_Witness ==
    /\ last.fn = "delete_habit" /\ last.status = OK
    /\ last.habit_id \notin DOMAIN habits
    /\ \E i \in 1..Len(receipts) :
           /\ receipts[i].habit_id = last.habit_id
           /\ receipts[i].owner = "bob"
           /\ receipts[i].date = MS_PER_DAY

\* ------------------------------------------------------------------------
\* C20
\* ------------------------------------------------------------------------

\* C20: get_completion_rate returns, for every habit and every period_days, a
\* value from 0 to 100 and never fails; it returns 0 when period_days = 0 or
\* goal_count = 0 or total_checkins = 0.
C20_CompletionRateIsTotal ==
    \A id \in DOMAIN habits, period_days \in 0..MaxWord :
        LET h == habits[id]
            out == get_completion_rate(h, period_days)
        IN  /\ out.status = OK
            /\ out.result \in 0..100
            /\ (period_days = 0 \/ h.goal_count = 0 \/ h.total_checkins = 0)
               => out.result = 0

\* ------------------------------------------------------------------------
\* C21
\* ------------------------------------------------------------------------

\* C21: on a habit with total_checkins and goal_count other than 0 and for
\* every period_days other than 0, get_completion_rate returns the smaller of
\* 100 and the integer quotient of total_checkins * 100 by
\* period_days * goal_count, total_checkins being the habit's lifetime count.
C21_CompletionRateFormula ==
    \A id \in DOMAIN habits, period_days \in 1..MaxWord :
        LET h == habits[id]
            out == get_completion_rate(h, period_days)
            quotient == (h.total_checkins * 100) \div (period_days * h.goal_count)
        IN  (h.total_checkins # 0 /\ h.goal_count # 0)
            => /\ out.status = OK
               /\ out.result = IF quotient > 100 THEN 100 ELSE quotient

\* ------------------------------------------------------------------------
\* C22
\* ------------------------------------------------------------------------

\* C22: a call of can_check_in_today at now returns TRUE exactly when the
\* habit has no last_checkin_date or one that differs from the day id of now;
\* it returns FALSE exactly when check_in at the same now, whatever its notes
\* and sender, fails with E_ALREADY_CHECKED_IN; and it leaves the habit, the
\* receipts and the events as they are.
C22_CanCheckInToday ==
    [][(last'.fn = "can_check_in_today")
       => LET h == habits[last'.habit_id]
              now == last'.now
          IN  /\ last'.status = OK
              /\ last'.result
                     = (\/ ~is_some(h.last_checkin_date)
                        \/ borrow(h.last_checkin_date) # get_date_timestamp(now))
              /\ \A notes \in AnyNotes, sender \in Users :
                     (last'.result = FALSE)
                         <=> (check_in(h, notes, now, sender, next_uid).status
                                  = E_ALREADY_CHECKED_IN)
              /\ habits' = habits
              /\ receipts' = receipts
              /\ events' = << >>]_vars

\* can_check_in_today has answered FALSE late in the day of the last check-in.
C22_Witness ==
    /\ last.fn = "can_check_in_today" /\ last.status = OK
    /\ last.result = FALSE
    /\ last.now % MS_PER_DAY # 0
    /\ habits[last.habit_id].total_checkins >= 2

\* ------------------------------------------------------------------------
\* C23
\* ------------------------------------------------------------------------

\* C23: a call of get_days_since_creation at now returns the number of days
\* from the day id of created_at to the day id of now when the latter is not
\* the earlier one, and returns 0, without failing, when it is; the habit is
\* left as it is.
C23_DaysSinceCreation ==
    [][(last'.fn = "get_days_since_creation")
       => LET h == habits[last'.habit_id]
              created == h.created_at - (h.created_at % MS_PER_DAY)
              current == last'.now - (last'.now % MS_PER_DAY)
          IN  /\ last'.status = OK
              /\ last'.result = IF current >= created
                                THEN (current - created) \div MS_PER_DAY
                                ELSE 0
              /\ habits' = habits
              /\ receipts' = receipts
              /\ events' = << >>]_vars

\* get_days_since_creation has answered 0 for a now before the day of creation
\* of a habit created late in its day.
C23_Witness ==
    /\ last.fn = "get_days_since_creation" /\ last.status = OK
    /\ last.result = 0
    /\ habits[last.habit_id].created_at % MS_PER_DAY # 0
    /\ last.now < habits[last.habit_id].created_at - MS_PER_DAY

\* ------------------------------------------------------------------------
\* C24
\* ------------------------------------------------------------------------

\* Timestamps at the start of a day, just after it, and at its end.
BucketTimes ==
    {d * MS_PER_DAY + o : d \in 0..MaxDay, o \in {0, 1, MS_PER_DAY - 1}}

\* C24: for every timestamp t, get_date_timestamp(t) = t - (t mod 86400000);
\* it is a multiple of MS_PER_DAY, at most t and more than t - MS_PER_DAY; it
\* is idempotent and monotone; and after a successful check_in at t1 a
\* check_in at t2 is refused as E_ALREADY_CHECKED_IN exactly when t1 and t2
\* have the same day id. Every receipt's date is a day id.
C24_DayBucketing ==
    /\ \A t \in BucketTimes :
           LET d == get_date_timestamp(t)
           IN  /\ d = t - (t % 86400000)
               /\ d % MS_PER_DAY = 0
               /\ d <= t /\ t < d + MS_PER_DAY
               /\ get_date_timestamp(d) = d
    /\ \A t1, t2 \in BucketTimes :
           t1 <= t2 => get_date_timestamp(t1) <= get_date_timestamp(t2)
    /\ \A id \in DOMAIN habits, t1, t2 \in BucketTimes :
           LET first == check_in(habits[id], EmptyBytes, t1, "alice", next_uid)
               second == check_in(first.habit, <<97>>, t2, "bob", next_uid + 1)
           IN  first.status = OK
               => ((second.status = E_ALREADY_CHECKED_IN)
                       <=> (get_date_timestamp(t1) = get_date_timestamp(t2)))
    /\ \A i \in 1..Len(receipts) : receipts[i].date % MS_PER_DAY = 0

\* A check_in was refused as a second one of its day on a habit whose last
\* check-in day is the third epoch day.
C24_Witness ==
    /\ last.fn = "check_in" /\ last.status = E_ALREADY_CHECKED_IN
    /\ habits[last.habit_id].last_checkin_date = some(2 * MS_PER_DAY)
    /\ Len(receipts) >= 2

\* ------------------------------------------------------------------------
\* C25
\* ------------------------------------------------------------------------

\* The check_in calls that callers submit within one day: each call has its
\* sender, its notes and its timestamp.
SameDayCalls(day) ==
    {[sender |-> a.sender, notes |-> a.notes, now |-> day * MS_PER_DAY + o] :
        a \in {c \in CheckInInputs : c.notes \in TextNotes}, o \in Offsets}

\* The habit is a shared object: the ledger applies the calls submitted on it
\* one at a time, in the order of the sequence calls; uid is the next fresh
\* object id. The result is the habit after the last call, the receipts
\* issued, and the status of each call.
RECURSIVE Serialize(_, _, _)
Serialize(habit, calls, uid) ==
    IF calls = << >>
    THEN [habit |-> habit, receipts |-> << >>, statuses |-> << >>]
    ELSE LET call == Head(calls)
             out == check_in(habit, call.notes, call.now, call.sender, uid)
             rest == Serialize(out.habit, Tail(calls), uid + Len(out.receipts))
         IN  [habit |-> rest.habit,
              receipts |-> out.receipts \o rest.receipts,
              statuses |-> <<out.status>> \o rest.statuses]

C26_ReceiptOfCheckIn ==
    /\ \A id \in DOMAIN habits, now \in Timestamps, notes \in AnyNotes,
          sender \in Users :
           LET out == check_in(habits[id], notes, now, sender, next_uid)
               receipt == [id |-> next_uid, owner |-> sender, habit_id |-> id,
                           date |-> now - (now % MS_PER_DAY),
                           notes |-> IF notes = EmptyBytes
                                     THEN none ELSE some(utf8(notes))]
           IN  out.receipts = IF out.status = OK THEN <<receipt>> ELSE << >>
    /\ (last.fn = "check_in" /\ last.status = OK)
       => /\ Len(receipts) >= 1
          /\ receipts[Len(receipts)].owner = last.sender
          /\ receipts[Len(receipts)].habit_id = last.habit_id
          /\ receipts[Len(receipts)].id = next_uid - 1
          /\ last.habit_id \in DOMAIN habits
             => some(receipts[Len(receipts)].date)
                    = habits[last.habit_id].last_checkin_date

\* bob has just checked in with notes on alice's habit: the receipt is bob's
\* and carries the notes, and an earlier receipt of alice has none.
C26_Witness ==
    /\ last.fn = "check_in" /\ last.status = OK /\ last.sender = "bob"
    /\ habits[last.habit_id].owner = "alice"
    /\ receipts[Len(receipts)].owner = "bob"
    /\ receipts[Len(receipts)].notes = some(utf8(<<97>>))
    /\ \E i \in 1..Len(receipts) :
           receipts[i].owner = "alice" /\ receipts[i].notes = none

\* ------------------------------------------------------------------------
\* C27
\* ------------------------------------------------------------------------

\* The CheckInRecorded events of habit id among the events evs.
RecordedFor(evs, id) ==
    SelectSeq(evs, LAMBDA e : e.type = "CheckInRecorded" /\ e.habit_id = id)

\* C27: a check_in that succeeds emits exactly one CheckInRecorded, with the
\* habit's id, the day id of now, and the habit's current_streak and
\* total_checkins as they are after the call; a check_in that fails emits
\* none. A habit starts with total_checkins 0 and no CheckInRecorded, and each
\* transaction emits as many CheckInRecorded events for a habit as it adds to
\* the habit's total_checkins: over the habit's life their number is
\* total_checkins.
C27_CheckInRecorded ==
    /\ [](\A id \in DOMAIN habits, now \in Timestamps, notes \in AnyNotes,
             sender \in Users :
              LET out == check_in(habits[id], notes, now, sender, next_uid)
              IN  EventsOfType(out.events, "CheckInRecorded")
                      = IF out.status = OK
                        THEN <<[type |-> "CheckInRecorded", habit_id |-> id,
                                date |-> now - (now % MS_PER_DAY),
                                new_streak |-> out.habit.current_streak,
                                total_checkins |-> out.habit.total_checkins]>>
                        ELSE << >>)
    /\ [][/\ \A id \in DOMAIN habits \cap DOMAIN habits' :
                 Len(RecordedFor(events', id))
                     = habits'[id].total_checkins - habits[id].total_checkins
          /\ \A id \in DOMAIN habits' \ DOMAIN habits :
                 /\ habits'[id].total_checkins = 0
                 /\ RecordedFor(events', id) = << >>
          /\ \A i \in 1..Len(events') :
                 events'[i].type = "CheckInRecorded"
                     => /\ last'.fn = "check_in" /\ last'.status = OK
                        /\ events'[i].habit_id = last'.habit_id]_vars

\* A check_in that broke a streak of two has just emitted CheckInRecorded with
\* new_streak 1 and total_checkins 3, after StreakBroken.
C27_Witness ==
    /\ last.fn = "check_in" /\ last.status = OK
    /\ Len(events) = 2
    /\ events[2].type = "CheckInRecorded"
    /\ events[2].date = 4 * MS_PER_DAY
    /\ events[2].new_streak = 1
    /\ events[2].total_checkins = 3
    /\ habits[last.habit_id].total_checkins = 3

\* ------------------------------------------------------------------------
\* C28
\* ------------------------------------------------------------------------

\* C28: no transaction changes the id, the owner or the created_at of a habit:
\* whatever check_in and update_habit calls are made on it, by whom and with
\* what outcome, the three fields are as create_habit set them.
C28_IdentityIsImmutable ==
    [][\A id \in DOMAIN habits \cap DOMAIN habits' :
           /\ habits'[id].id = habits[id].id
           /\ habits'[id].id = id
           /\ habits'[id].owner = habits[id].owner
           /\ habits'[id].created_at = habits[id].created_at]_vars

\* alice's habit, created at the end of the second epoch day, has two
\* check-ins and an updated name, and a stranger's update has just been
\* refused.
C28_Witness ==
    /\ last.fn = "update_habit" /\ last.status = E_NOT_OWNER
    /\ habits[last.habit_id].owner = "alice"
    /\ habits[last.habit_id].created_at = 2 * MS_PER_DAY - 1
    /\ habits[last.habit_id].name = utf8(<<98>>)
    /\ habits[last.habit_id].total_checkins >= 2

\* ------------------------------------------------------------------------
\* C30
\* ------------------------------------------------------------------------

\* C30: whatever the timestamps of the transactions, a clock that moves
\* backwards included, a last_checkin_date that is set stays set, is strictly
\* greater after each successful check_in than before it, is changed by no
\* other transaction, and is a multiple of MS_PER_DAY.
C30_LastDateMonotonic ==
    [][\A id \in DOMAIN habits \cap DOMAIN habits' :
           LET before == habits[id].last_checkin_date
               after == habits'[id].last_checkin_date
               checked_in == /\ last'.fn = "check_in" /\ last'.status = OK
                             /\ last'.habit_id = id
           IN  /\ is_some(before) => is_some(after)
               /\ is_some(after) => borrow(after) % MS_PER_DAY = 0
               /\ (is_some(before) /\ checked_in)
                  => borrow(after) > borrow(before)
               /\ checked_in => is_some(after)
               /\ ~checked_in => after = before]_vars

\* After a check-in on the fifth epoch day a check_in with an earlier
\* timestamp was refused; the habit's two receipts are three days apart.
C30_Witness ==
    /\ last.fn = "check_in" /\ last.status = E_INVALID_DATE
    /\ habits[last.habit_id].last_checkin_date = some(4 * MS_PER_DAY)
    /\ habits[last.habit_id].total_checkins = 2
    /\ habits[last.habit_id].current_streak = 1

\* ------------------------------------------------------------------------
\* C29
\* ------------------------------------------------------------------------

\* C29: when the now of each transaction is at least the now of every earlier
\* one, every check_in succeeds or fails with E_ALREADY_CHECKED_IN, so
\* E_INVALID_DATE does not occur, and the last_checkin_date of every habit is
\* at most the day id of the clock.
C29_MonotonicClockNoInvalidDate ==
    /\ last.fn = "check_in" => last.status \in {OK, E_ALREADY_CHECKED_IN}
    /\ \A id \in DOMAIN habits :
           is_some(habits[id].last_checkin_date)
               => borrow(habits[id].last_checkin_date)
                      <= get_date_timestamp(clock)

\* ------------------------------------------------------------------------
\* C31
\* ------------------------------------------------------------------------

\* C31: a transaction on one habit, successful or failed, leaves every other
\* habit there, with every field as it was, and leaves the receipts issued
\* for every other habit as they were; a create_habit, successful or failed,
\* does so for every habit.
C31_OtherHabitsUnchanged ==
    [][\A b \in DOMAIN habits :
           b # last'.habit_id
               => /\ b \in DOMAIN habits'
                  /\ habits'[b] = habits[b]
                  /\ SelectSeq(receipts', LAMBDA r : r.habit_id = b)
                         = SelectSeq(receipts, LAMBDA r : r.habit_id = b)]_vars

\* Two habits of alice: the one was just updated by her, the other one holds
\* two check-ins and its two receipts, and is as create_habit and the
\* check-ins left it.
C31_Witness ==
    /\ last.fn = "update_habit" /\ last.status = OK
    /\ \E a, b \in DOMAIN habits :
           /\ a = last.habit_id /\ b # a
           /\ habits[a].owner = "alice" /\ habits[b].owner = "alice"
           /\ habits[a].goal_type = 1 /\ ~habits[a].is_public
           /\ habits[b].goal_type = GOAL_TYPE_MONTHLY /\ habits[b].is_public
           /\ habits[b].total_checkins = 2
           /\ Len(ReceiptsOf(b)) = 2

\* ------------------------------------------------------------------------
\* C32
\* ------------------------------------------------------------------------

\* C32: in every reachable state each habit has either no check-in at all,
\* with total_checkins, current_streak and longest_streak 0 and no
\* last_checkin_date, or none of the four: the four conditions are
\* equivalent, they hold exactly as long as no check_in on the habit has
\* succeeded, and from the first successful check_in on
\* 1 <= current_streak <= longest_streak <= total_checkins.
C32_ZeroStatisticsAreEquivalent ==
    \A id \in DOMAIN habits :
        LET h == habits[id]
        IN  /\ (h.total_checkins = 0) <=> (h.current_streak = 0)
            /\ (h.total_checkins = 0) <=> (h.longest_streak = 0)
            /\ (h.total_checkins = 0) <=> ~is_some(h.last_checkin_date)
            /\ (h.total_checkins = 0) <=> (history[id].checkins = 0)
            /\ history[id].checkins > 0
                   => /\ 1 <= h.current_streak
                      /\ h.current_streak <= h.longest_streak
                      /\ h.longest_streak <= h.total_checkins

\* A habit after check-ins on two days in a row and a third one after a gap,
\* and after an update of its owner: the three counters differ.
C32_Witness ==
    /\ last.fn = "update_habit" /\ last.status = OK
    /\ habits[last.habit_id].current_streak = 1
    /\ habits[last.habit_id].longest_streak = 2
    /\ habits[last.habit_id].total_checkins = 3
    /\ habits[last.habit_id].last_checkin_date = some(4 * MS_PER_DAY)
    /\ history[last.habit_id].checkins = 3

\* ------------------------------------------------------------------------
\* C33
\* ------------------------------------------------------------------------

\* C33: in every reachable state, for every check_in that finds a
\* last_checkin_date earlier than yesterday, current_streak <= longest_streak
\* holds before the call, so the update of longest_streak in the broken-streak
\* branch (lines 170-172) does not fire, and a successful such call leaves
\* longest_streak as it was and current_streak at 1.
C33_BrokenStreakKeepsLongest ==
    \A id \in DOMAIN habits :
        \A a \in CheckInInputs, now \in Timestamps :
            LET h == habits[id]
                today == get_date_timestamp(now)
                out == check_in(h, a.notes, now, a.sender, next_uid)
            IN  (/\ is_some(h.last_checkin_date)
                 /\ today >= MS_PER_DAY
                 /\ borrow(h.last_checkin_date) < today - MS_PER_DAY)
                => /\ h.current_streak <= h.longest_streak
                   /\ h.longest_streak >= 1
                   /\ out.status = OK
                          => /\ out.habit.longest_streak = h.longest_streak
                             /\ out.habit.current_streak = 1

\* A check_in two days after a streak of two has just succeeded: StreakBroken
\* carries the 2, current_streak is 1 and longest_streak is still 2.
C33_Witness ==
    /\ last.fn = "check_in" /\ last.status = OK
    /\ Len(events) = 2
    /\ events[1] = StreakBroken(last.habit_id, 2)
    /\ habits[last.habit_id].current_streak = 1
    /\ habits[last.habit_id].longest_streak = 2
    /\ habits[last.habit_id].total_checkins = 3

\* ------------------------------------------------------------------------
\* C34
\* ------------------------------------------------------------------------

\* C34: a successful check_in emits StreakBroken at most once, and only when
\* it found a last_checkin_date earlier than yesterday: not on the first
\* check-in and not on a check-in of the day after the last one; the
\* StreakBroken comes before the CheckInRecorded of the call, which is the
\* last event, and its previous_streak is the current_streak the habit held
\* before the call.
C34_StreakBrokenOnGapOnly ==
    [][(last'.fn = "check_in" /\ last'.status = OK)
       => LET id == last'.habit_id
              h == habits[id]
              today == borrow(habits'[id].last_checkin_date)
              yesterday == today - MS_PER_DAY
              gap == /\ is_some(h.last_checkin_date)
                     /\ borrow(h.last_checkin_date) < yesterday
              broken == {i \in 1..Len(events') : events'[i].type = "StreakBroken"}
              recorded == {i \in 1..Len(events') : events'[i].type = "CheckInRecorded"}
          IN  /\ Cardinality(broken) <= 1
              /\ broken # {} => gap
              /\ ~is_some(h.last_checkin_date) => broken = {}
              /\ (is_some(h.last_checkin_date)
                      /\ borrow(h.last_checkin_date) = yesterday) => broken = {}
              /\ recorded = {Len(events')}
              /\ \A i \in broken :
                     /\ \A j \in recorded : i < j
                     /\ events'[i].habit_id = id
                     /\ events'[i].previous_streak = h.current_streak]_vars

\* bob's check_in two days after two check-ins in a row has just succeeded
\* on alice's habit: its events are the StreakBroken with the streak of 2 that
\* the habit held, then the CheckInRecorded of the fifth epoch day.
C34_Witness ==
    /\ last.fn = "check_in" /\ last.status = OK /\ last.sender = "bob"
    /\ habits[last.habit_id].owner = "alice"
    /\ Len(events) = 2
    /\ events[1].type = "StreakBroken"
    /\ events[1].previous_streak = 2
    /\ events[2].type = "CheckInRecorded"
    /\ events[2].date = 4 * MS_PER_DAY
    /\ events[2].new_streak = 1

\* ------------------------------------------------------------------------
\* C35
\* ------------------------------------------------------------------------

\* C35: the events of a habit id begin with its HabitCreated, emitted once,
\* by the transaction that creates the habit and by no later one; every other
\* event of the id is emitted while the habit exists; HabitDeleted is emitted
\* by the transaction that removes the habit, so at most once; and a habit
\* that was removed stays removed, no check_in, update_habit or delete_habit
\* applies to it, and no event carries its id any more.
C35_EventLifecycle ==
    /\ [](DOMAIN habits \subseteq DOMAIN history)
    /\ [][LET deleted == DOMAIN history \ DOMAIN habits
          IN  /\ DOMAIN history \subseteq DOMAIN history'
              /\ \A id \in DOMAIN history' \ DOMAIN history :
                     /\ id \in DOMAIN habits'
                     /\ Len(events') = 1
                     /\ events'[1].type = "HabitCreated"
                     /\ events'[1].habit_id = id
              /\ \A id \in deleted :
                     /\ id \notin DOMAIN habits'
                     /\ last'.habit_id # id
              /\ \A i \in 1..Len(events') :
                     LET e == events'[i]
                     IN  /\ e.habit_id \notin deleted
                         /\ e.type = "HabitCreated"
                                => /\ e.habit_id \notin DOMAIN history
                                   /\ e.habit_id \in DOMAIN history'
                         /\ e.type # "HabitCreated"
                                => e.habit_id \in DOMAIN habits
                         /\ e.type = "HabitDeleted"
                                => e.habit_id \notin DOMAIN habits']_vars

\* alice's first habit took two check-ins and was deleted; on her second
\* habit a check-in after a gap has just succeeded, and its events carry the
\* id of the second habit.
C35_Witness ==
    /\ last.fn = "check_in" /\ last.status = OK
    /\ last.habit_id \in DOMAIN habits
    /\ Len(events) = 2
    /\ events[1] = StreakBroken(last.habit_id, 1)
    /\ events[2].habit_id = last.habit_id
    /\ \E d \in DOMAIN history \ DOMAIN habits :
           /\ history[d].checkins = 2
           /\ d < last.habit_id

\* ------------------------------------------------------------------------
\* C36
\* ------------------------------------------------------------------------

\* C36: a successful check_in, whoever sends it, writes total_checkins,
\* current_streak, longest_streak and last_checkin_date and no other field:
\* name, description, emoji, goal_type, goal_count and is_public are after
\* the call what they were before it.
C36_CheckInWritesStatisticsOnly ==
    [][(last'.fn = "check_in" /\ last'.status = OK)
       => LET before == habits[last'.habit_id]
              after == habits'[last'.habit_id]
          IN  /\ after.name = before.name
              /\ after.description = before.description
              /\ after.emoji = before.emoji
              /\ after.goal_type = before.goal_type
              /\ after.goal_count = before.goal_count
              /\ after.is_public = before.is_public
              /\ after = [before EXCEPT
                             !.total_checkins = after.total_checkins,
                             !.current_streak = after.current_streak,
                             !.longest_streak = after.longest_streak,
                             !.last_checkin_date = after.last_checkin_date]]_vars

\* bob's second check_in has just succeeded on alice's private habit, which
\* holds the name, description, emoji, goal_type and goal_count of her update.
C36_Witness ==
    /\ last.fn = "check_in" /\ last.status = OK /\ last.sender = "bob"
    /\ habits[last.habit_id].owner = "alice"
    /\ ~habits[last.habit_id].is_public
    /\ habits[last.habit_id].name = utf8(<<98>>)
    /\ habits[last.habit_id].description = utf8(<<98>>)
    /\ habits[last.habit_id].emoji = utf8(<<98>>)
    /\ habits[last.habit_id].goal_type = 1
    /\ habits[last.habit_id].goal_count = 0
    /\ habits[last.habit_id].total_checkins = 2
    /\ habits[last.habit_id].current_streak = 2

\* ------------------------------------------------------------------------
\* C37
\* ------------------------------------------------------------------------

\* C37: update_habit, by the owner or by another sender, accepted or refused,
\* leaves total_checkins, current_streak, longest_streak and
\* last_checkin_date as they were, so that every check_in has the same
\* outcome status after the update as before it: a check_in refused with
\* E_ALREADY_CHECKED_IN is still refused.
C37_UpdateKeepsStatistics ==
    /\ [](\A id \in DOMAIN habits, a \in UpdateInputs, sender \in Users :
              LET h == habits[id]
                  out == update_habit(h, a.name, a.description, a.emoji,
                                      a.goal_type, a.goal_count, a.is_public,
                                      sender)
              IN  /\ out.habit.total_checkins = h.total_checkins
                  /\ out.habit.current_streak = h.current_streak
                  /\ out.habit.longest_streak = h.longest_streak
                  /\ out.habit.last_checkin_date = h.last_checkin_date
                  /\ \A now \in Timestamps :
                         check_in(out.habit, EmptyBytes, now, sender, next_uid).status
                             = check_in(h, EmptyBytes, now, sender, next_uid).status)
    /\ [][last'.fn = "update_habit"
          => LET before == habits[last'.habit_id]
                 after == habits'[last'.habit_id]
             IN  /\ after.total_checkins = before.total_checkins
                 /\ after.current_streak = before.current_streak
                 /\ after.longest_streak = before.longest_streak
                 /\ after.last_checkin_date = before.last_checkin_date
                 /\ receipts' = receipts]_vars

\* The owner has just updated, goal_type included, a habit whose last
\* check-in is of the third epoch day: the statistics of its two check-ins
\* are there, and a check_in of that day is refused.
C37_Witness ==
    /\ last.fn = "update_habit" /\ last.status = OK
    /\ habits[last.habit_id].goal_type = 1
    /\ habits[last.habit_id].last_checkin_date = some(2 * MS_PER_DAY)
    /\ habits[last.habit_id].total_checkins = 2
    /\ habits[last.habit_id].current_streak = 2
    /\ habits[last.habit_id].longest_streak = 2
    /\ check_in(habits[last.habit_id], EmptyBytes, 3 * MS_PER_DAY - 1,
                last.sender, next_uid).status = E_ALREADY_CHECKED_IN

\* ------------------------------------------------------------------------
\* C38
\* ------------------------------------------------------------------------

C39_LoadingIsReset ==
    /\ [](\A i \in 1..Len(invocations) :
              LET call == invocations[i]
              IN  /\ (call.pc = "done" /\ call.raised) => call.lowered
                  /\ (call.fn = "checkIn" /\ call.effects = "failure")
                         => (call.pc = "done" /\ call.result = "rejected"))
    /\ []((\A i \in 1..Len(invocations) : invocations[i].pc = "done")
              => ~isLoading)
    /\ [][\A i \in 1..Len(invocations) :
              (/\ invocations[i].fn = "checkIn"
               /\ invocations[i].effects # "failure"
               /\ invocations'[i].effects = "failure")
              => transactionError' = TransactionFailed]_vars
    /\ \A i \in 1..MaxCalls :
           (i <= Len(invocations) /\ invocations[i].raised)
               ~> (i <= Len(invocations) /\ invocations[i].lowered
                                         /\ invocations[i].pc = "done")

\* Two calls are done. A checkIn raised isLoading, read a failure status,
\* rejected and lowered it; the transaction error is the one it stored. An
\* updateHabit that read a failure status as well has resolved after its
\* refetch.
C39_Witness ==
    /\ Len(invocations) = 2
    /\ ~isLoading
    /\ transactionError = TransactionFailed
    /\ hash = Digest(2)
    /\ invocations[1].fn = "updateHabit" /\ invocations[1].pc = "done"
    /\ invocations[1].effects = "failure" /\ invocations[1].result = "resolved"
    /\ invocations[1].watched
    /\ invocations[2].fn = "checkIn" /\ invocations[2].pc = "done"
    /\ invocations[2].effects = "failure" /\ invocations[2].result = "rejected"
    /\ invocations[2].raised /\ invocations[2].lowered

====
